---- MODULE Spec2Model ----
(***************************************************************************)
(* State-machine model of the host-side core of the OpenGL ray tracer:     *)
(*   - the median-split BVH builder            (src/src/scene/bvh.cpp)     *)
(*   - the ping-pong accumulation target       (src/src/render/accum.cpp)  *)
(*   - the per-frame camera bookkeeping        (include/render/frame_state.h) *)
(*   - the main loop and its history-invalidation logic                    *)
(*                                             (src/src/app/application.cpp) *)
(*   - the BVH rebuild and upload, and the application's start-up and      *)
(*     teardown              (src/src/scene/bvh.cpp, application.cpp)      *)
(* Floats are modelled by integers: coordinates are small integers, and    *)
(* tunable parameters / matrix entries are counted in units of 1e-6, so    *)
(* that the comparison epsilon 1e-5 is 10 units.                           *)
(***************************************************************************)
EXTENDS Integers, Sequences, FiniteSets, TLC

VARIABLES
    \* ---- BVH builder (build_bvh / build_recursive) ----
    trisIn,     \* the triangle list as handed to build_bvh (kept for comparison)
    tris,       \* std::vector<CPU_Triangle>& tris (reordered in place at the end)
    refs,       \* std::vector<BuildRef>: refs[i].triIndex (centroid is derived)
    nodes,      \* std::vector<BVHNode>
    leafMax,    \* the leaf threshold handed to build_recursive
    callStack,  \* activation records of build_recursive
    retIdx,     \* value returned by the build_recursive call that returned last
    remapped,   \* std::vector<CPU_Triangle> remapped
    remapSrc,   \* for each entry of remapped, the input index it was copied from
    dfsStack,   \* std::vector<int> stack of the reorder pass
    bpc,        \* position in build_bvh: "idle", "build", "remap", "done";
                \* "uploaded" after upload_bvh_tbo
    firstBuild, \* the result of the first build_bvh call, once a second one was made
    nodeData,   \* upload_bvh_tbo: the floats handed to glBufferData for the nodes
    triData,    \* upload_bvh_tbo: the floats handed to glBufferData for the triangles
    \* ---- rt::Accum and the GL objects it owns ----
    accum,      \* the Accum object: fbo, tex[2], motionTex, writeIdx, frameIndex, width, height
    gl,         \* the GL context: generated texture / framebuffer names, texture contents
    aop,        \* the Accum operation that ran last, with its arguments
    apre,       \* frameIndex, writeIdx, width and height before that operation
    swapsSince, \* swapAfterFrame calls since the last reset / recreate / release
    \* ---- rt::FrameState ----
    frame,      \* the FrameState object
    fop,        \* the FrameState operation that ran last
    committed,  \* currViewProj / currCamPos as of the last endFrame
    \* ---- Application::mainLoop and the AppState it owns ----
    lpc,        \* position in the loop: "poll", "render", "gui" ("off": not running)
    rayMode,    \* AppState::rayMode
    useBVH,     \* AppState::useBVH
    showMotion, \* AppState::showMotion
    params,     \* AppState::params (RenderParams)
    input,      \* AppState::input (io::InputState)
    camera,     \* AppState::camera
    gbuffer,    \* AppState::gBuffer
    bvh,        \* AppState::bvh, bvhModel, bvhNodeCount, bvhTriCount
    bvhPicker,  \* bvhPicker.selectedIndex / currentPath (index into ModelFiles)
    envPicker,  \* envPicker.selectedIndex / currentPath (index into EnvFiles)
    envMap,     \* the environment map in envMapTex (0: the dummy cube map)
    cameraMoved,            \* the local of mainLoop, as of the last LoopInput
    cameraChangedFromZoom,  \* the local of mainLoop, as of the last LoopInput
    shouldClose,\* glfwWindowShouldClose(window)
    iter,       \* iterations completed
    hist,       \* what happened since the last invalidation / frame (see HistNew)
    budget,     \* input events the environment may still deliver
    \* ---- rebuild_bvh_from_model_path, step by step ----
    handle,       \* BVHHandle &handle: nodeTex, nodeBuf, triTex, triBuf
    bvhModel,     \* std::unique_ptr<Model> &bvhModel (0: null, else index into ModelFiles)
    outNodeCount, \* int &outNodeCount
    outTriCount,  \* int &outTriCount
    triCPU,       \* size of the local triCPU
    nodesCPU,     \* size of the local nodesCPU
    bvhGL,        \* the GL texture and buffer names in use for the BVH
    rpc,          \* position in the function ("idle": not running)
    rpath,        \* the path argument (index into ModelFiles)
    rret,         \* what the last call returned ("none": no call has returned)
    rpre,         \* handle, model and counts when the running / last call began
    \* ---- Application: run() and shutdown() ----
    window,       \* GLFWwindow *window is not null
    initialized,  \* bool initialized
    fsVao,        \* app.fsVao names a vertex array object
    envMapTex,    \* app.envMapTex names a cube map
    tpc           \* position in run(): "start", "glres", "state", "loop", "returned"

bvhVars   == <<trisIn, tris, refs, nodes, leafMax, callStack, retIdx, remapped,
               remapSrc, dfsStack, bpc, firstBuild, nodeData, triData>>
accumVars == <<accum, gl, aop, apre, swapsSince>>
frameVars == <<frame, fop, committed>>
loopVars  == <<lpc, rayMode, useBVH, showMotion, params, input, camera, gbuffer,
               bvh, bvhPicker, envPicker, envMap, cameraMoved,
               cameraChangedFromZoom, shouldClose, iter, hist, budget>>
rebuildVars == <<handle, bvhModel, outNodeCount, outTriCount, triCPU, nodesCPU,
                 bvhGL, rpc, rpath, rret, rpre>>
appVars   == <<window, initialized, fsVao, envMapTex, tpc>>
vars      == <<bvhVars, accumVars, frameVars, loopVars, rebuildVars, appVars>>

(***************************************************************************)
(* Bounds of the model.                                                    *)
(***************************************************************************)
MaxTris == 4        \* longest triangle list handed to build_bvh
MaxLeaf == 2        \* largest leaf threshold tried
MaxFrameIndex == 3  \* swapAfterFrame is not taken beyond this frame count
MaxGLName == 3      \* GL texture names are drawn from 1..MaxGLName
MaxFboName == 1     \* GL framebuffer names are drawn from 1..MaxFboName
MaxSize == 2        \* widths and heights handed to recreate are drawn from -1..MaxSize
MaxIter == 3        \* iterations of the main loop
MaxEvents == 2      \* input events (keys, mouse, resize, widgets) per run

(***************************************************************************)
(* Vectors and triangles.                                                  *)
(***************************************************************************)
Min2(a, b) == IF a < b THEN a ELSE b
Max2(a, b) == IF a > b THEN a ELSE b
VAdd(a, b) == [i \in 1..3 |-> a[i] + b[i]]
VSub(a, b) == [i \in 1..3 |-> a[i] - b[i]]
VMin(a, b) == [i \in 1..3 |-> Min2(a[i], b[i])]
VMax(a, b) == [i \in 1..3 |-> Max2(a[i], b[i])]

Tri(v0, e1, e2) == [v0 |-> v0, e1 |-> e1, e2 |-> e2]

\* Triangles the inputs are drawn from: three unit triangles displaced along
\* x, y and z, so that every split axis occurs, and a copy of the first one
\* lifted along z, whose centroid equals the first one's on x and y; a list
\* may repeat a triangle, which gives equal centroids on every axis.
TriPool ==
    { Tri(<<0, 0, 0>>, <<1, 0, 0>>, <<0, 1, 0>>),
      Tri(<<3, 0, 0>>, <<1, 0, 0>>, <<0, 0, 1>>),
      Tri(<<0, 2, 5>>, <<0, 1, 0>>, <<0, 0, 1>>),
      Tri(<<0, 0, 1>>, <<1, 0, 0>>, <<0, 1, 0>>) }

tri_min(t) == VMin(t.v0, VMin(VAdd(t.v0, t.e1), VAdd(t.v0, t.e2)))
TriMaxIgnoresE2(t) == VMax(t.v0, VAdd(t.v0, t.e1))
tri_max(t) == VMax(t.v0, VMax(VAdd(t.v0, t.e1), VAdd(t.v0, t.e2)))
\* (v0 + v1 + v2) * (1/3): kept as the sum, three times the centroid, which
\* orders the triangles along every axis exactly as the centroid does.
tri_centroid(t) == VAdd(t.v0, VAdd(VAdd(t.v0, t.e1), VAdd(t.v0, t.e2)))

BoxInit == 1000     \* stands for 1e30f: larger than every coordinate

RECURSIVE RangeMin(_, _, _, _)
RangeMin(T, R, i, end) ==
    IF i >= end THEN <<BoxInit, BoxInit, BoxInit>>
    ELSE VMin(tri_min(T[R[i + 1] + 1]), RangeMin(T, R, i + 1, end))

RECURSIVE RangeMax(_, _, _, _)
RangeMax(T, R, i, end) ==
    IF i >= end THEN <<-BoxInit, -BoxInit, -BoxInit>>
    ELSE VMax(tri_max(T[R[i + 1] + 1]), RangeMax(T, R, i + 1, end))

\* axis = (e.x > e.y) ? ((e.x > e.z) ? 0 : 2) : ((e.y > e.z) ? 1 : 2)
SplitAxisAlwaysX(bMin, bMax) == 0
SplitAxis(bMin, bMax) ==
    LET e == VSub(bMax, bMin)
    IN  IF e[1] > e[2] THEN (IF e[1] > e[3] THEN 0 ELSE 2)
                       ELSE (IF e[2] > e[3] THEN 1 ELSE 2)

SplitMidAtBegin(begin, end) == begin
SplitMid(begin, end) == (begin + end) \div 2

\* The comparator of the nth_element call: a.c[axis] < b.c[axis].
RefLess(T, axis, a, b) == tri_centroid(T[a + 1])[axis + 1] < tri_centroid(T[b + 1])[axis + 1]

\* std::nth_element(refs+begin, refs+mid, refs+end, less): every rearrangement
\* of [begin, end) in which no element before mid is greater than refs[mid]
\* and no element after mid is less than it; the rest of refs is untouched.
NthElementNoPartition(T, R, begin, mid, end, axis) ==
    LET D == (begin + 1)..end
    IN  { [i \in 1..Len(R) |-> IF i \in D THEN R[p[i]] ELSE R[i]] :
            p \in Permutations(D) }
NthElement(T, R, begin, mid, end, axis) ==
    LET D == (begin + 1)..end
    IN  { [i \in 1..Len(R) |-> IF i \in D THEN R[p[i]] ELSE R[i]] :
            p \in { q \in Permutations(D) :
                      /\ \A i \in D : i < mid + 1 =>
                            ~RefLess(T, axis, R[q[mid + 1]], R[q[i]])
                      /\ \A i \in D : i > mid + 1 =>
                            ~RefLess(T, axis, R[q[i]], R[q[mid + 1]]) } }

Node(bMin, bMax, left, right, first, count) ==
    [bMin |-> bMin, bMax |-> bMax, left |-> left, right |-> right,
     first |-> first, count |-> count]

isLeaf(n) == n.count > 0

Frame(begin, end, myIndex, mid, stage, leftIdx) ==
    [begin |-> begin, end |-> end, myIndex |-> myIndex, mid |-> mid,
     stage |-> stage, leftIdx |-> leftIdx]

Top(s) == s[Len(s)]
Pop(s) == SubSeq(s, 1, Len(s) - 1)

RECURSIVE SeqsUpTo(_, _)
SeqsUpTo(S, n) ==
    IF n = 0 THEN {<<>>}
    ELSE LET shorter == SeqsUpTo(S, n - 1)
         IN  shorter \cup {Append(s, x) : s \in {t \in shorter : Len(t) = n - 1}, x \in S}

(***************************************************************************)
(* build_bvh and build_recursive, one action per step of the recursion.    *)
(***************************************************************************)
NoBuild == [done |-> FALSE, nodes |-> <<>>, tris |-> <<>>]

BvhInit ==
    /\ trisIn \in SeqsUpTo(TriPool, MaxTris)
    /\ tris = trisIn
    /\ leafMax \in 1..MaxLeaf
    /\ refs = <<>>
    /\ nodes = <<>>
    /\ callStack = <<>>
    /\ retIdx = -1
    /\ remapped = <<>>
    /\ remapSrc = <<>>
    /\ dfsStack = <<>>
    /\ bpc = "idle"
    /\ firstBuild = NoBuild
    /\ nodeData = <<>>
    /\ triData = <<>>

BvhIdle ==
    /\ trisIn = <<>>
    /\ tris = <<>>
    /\ leafMax = 1
    /\ refs = <<>>
    /\ nodes = <<>>
    /\ callStack = <<>>
    /\ retIdx = -1
    /\ remapped = <<>>
    /\ remapSrc = <<>>
    /\ dfsStack = <<>>
    /\ bpc = "idle"
    /\ firstBuild = NoBuild
    /\ nodeData = <<>>
    /\ triData = <<>>

\* build_bvh, up to the first call of build_recursive.
BuildStart ==
    /\ bpc = "idle"
    /\ IF tris = <<>>
       THEN /\ bpc' = "done"
            /\ UNCHANGED <<refs, callStack>>
       ELSE /\ refs' = [i \in 1..Len(tris) |-> i - 1]
            /\ callStack' = <<Frame(0, Len(tris), -1, -1, "enter", -1)>>
            /\ bpc' = "build"
    /\ nodes' = <<>>
    /\ UNCHANGED <<firstBuild, nodeData, triData, trisIn, tris, leafMax, retIdx, remapped, remapSrc, dfsStack>>
    /\ UNCHANGED <<accumVars, frameVars, loopVars, rebuildVars, appVars>>

\* build_recursive on a range of at most leafMax triangles: a leaf.
RecLeaf ==
    /\ bpc = "build" /\ callStack # <<>>
    /\ LET f == Top(callStack)
           count == f.end - f.begin
           myIndex == Len(nodes)
       IN  /\ f.stage = "enter"
           /\ count <= leafMax
           /\ nodes' = Append(nodes, Node(RangeMin(tris, refs, f.begin, f.end),
                                          RangeMax(tris, refs, f.begin, f.end),
                                          -1, -1, f.begin, count))
           /\ retIdx' = myIndex
           /\ callStack' = Pop(callStack)
    /\ UNCHANGED <<firstBuild, nodeData, triData, trisIn, tris, refs, leafMax, remapped, remapSrc, dfsStack, bpc>>
    /\ UNCHANGED <<accumVars, frameVars, loopVars, rebuildVars, appVars>>

RecSplitAtLeafMax ==
    /\ bpc = "build" /\ callStack # <<>>
    /\ LET f == Top(callStack)
           count == f.end - f.begin
           myIndex == Len(nodes)
           bMin == RangeMin(tris, refs, f.begin, f.end)
           bMax == RangeMax(tris, refs, f.begin, f.end)
       IN  /\ f.stage = "enter"
           /\ count >= leafMax
           /\ \E axis \in {SplitAxis(bMin, bMax)}, mid \in {SplitMid(f.begin, f.end)} :
                /\ nodes' = Append(nodes, Node(bMin, bMax, 0, 0, 0, 0))
                /\ refs' \in NthElement(tris, refs, f.begin, mid, f.end, axis)
                /\ callStack' = Append(Append(Pop(callStack),
                                     Frame(f.begin, f.end, myIndex, mid, "left", -1)),
                                     Frame(f.begin, mid, -1, -1, "enter", -1))
    /\ UNCHANGED <<firstBuild, nodeData, triData, trisIn, tris, leafMax, retIdx, remapped, remapSrc, dfsStack, bpc>>
    /\ UNCHANGED <<accumVars, frameVars, loopVars, rebuildVars, appVars>>

\* build_recursive on a larger range: reserve the slot, split, call the left child.
RecSplit ==
    /\ bpc = "build" /\ callStack # <<>>
    /\ LET f == Top(callStack)
           count == f.end - f.begin
           myIndex == Len(nodes)
           bMin == RangeMin(tris, refs, f.begin, f.end)
           bMax == RangeMax(tris, refs, f.begin, f.end)
       IN  /\ f.stage = "enter"
           /\ count > leafMax
           /\ \E axis \in {SplitAxis(bMin, bMax)}, mid \in {SplitMid(f.begin, f.end)} :
                /\ nodes' = Append(nodes, Node(bMin, bMax, 0, 0, 0, 0))
                /\ refs' \in NthElement(tris, refs, f.begin, mid, f.end, axis)
                /\ callStack' = Append(Append(Pop(callStack),
                                     Frame(f.begin, f.end, myIndex, mid, "left", -1)),
                                     Frame(f.begin, mid, -1, -1, "enter", -1))
    /\ UNCHANGED <<firstBuild, nodeData, triData, trisIn, tris, leafMax, retIdx, remapped, remapSrc, dfsStack, bpc>>
    /\ UNCHANGED <<accumVars, frameVars, loopVars, rebuildVars, appVars>>

\* The left child returned: keep leftIdx, call the right child.
RecAfterLeft ==
    /\ bpc = "build" /\ callStack # <<>>
    /\ LET f == Top(callStack)
       IN  /\ f.stage = "left"
           /\ callStack' = Append(Append(Pop(callStack),
                                Frame(f.begin, f.end, f.myIndex, f.mid, "right", retIdx)),
                                Frame(f.mid, f.end, -1, -1, "enter", -1))
    /\ UNCHANGED <<firstBuild, nodeData, triData, trisIn, tris, refs, nodes, leafMax, retIdx, remapped, remapSrc,
                   dfsStack, bpc>>
    /\ UNCHANGED <<accumVars, frameVars, loopVars, rebuildVars, appVars>>

RecAfterRightKeepsFirst ==
    /\ bpc = "build" /\ callStack # <<>>
    /\ LET f == Top(callStack)
           n == nodes[f.myIndex + 1]
       IN  /\ f.stage = "right"
           /\ nodes' = [nodes EXCEPT ![f.myIndex + 1] =
                            Node(n.bMin, n.bMax, f.leftIdx, retIdx, n.first, 0)]
           /\ retIdx' = f.myIndex
           /\ callStack' = Pop(callStack)
    /\ UNCHANGED <<firstBuild, nodeData, triData, trisIn, tris, refs, leafMax, remapped, remapSrc, dfsStack, bpc>>
    /\ UNCHANGED <<accumVars, frameVars, loopVars, rebuildVars, appVars>>

\* A return from the right child that writes the two indices the other way round.
RecAfterRightSwapsChildren ==
    /\ bpc = "build" /\ callStack # <<>>
    /\ LET f == Top(callStack)
           n == nodes[f.myIndex + 1]
       IN  /\ f.stage = "right"
           /\ nodes' = [nodes EXCEPT ![f.myIndex + 1] =
                            Node(n.bMin, n.bMax, retIdx, f.leftIdx, -1, 0)]
           /\ retIdx' = f.myIndex
           /\ callStack' = Pop(callStack)
    /\ UNCHANGED <<firstBuild, nodeData, triData, trisIn, tris, refs, leafMax, remapped, remapSrc, dfsStack, bpc>>
    /\ UNCHANGED <<accumVars, frameVars, loopVars, rebuildVars, appVars>>

\* The right child returned: write the child indices into the reserved slot.
RecAfterRight ==
    /\ bpc = "build" /\ callStack # <<>>
    /\ LET f == Top(callStack)
           n == nodes[f.myIndex + 1]
       IN  /\ f.stage = "right"
           /\ nodes' = [nodes EXCEPT ![f.myIndex + 1] =
                            Node(n.bMin, n.bMax, f.leftIdx, retIdx, -1, 0)]
           /\ retIdx' = f.myIndex
           /\ callStack' = Pop(callStack)
    /\ UNCHANGED <<firstBuild, nodeData, triData, trisIn, tris, refs, leafMax, remapped, remapSrc, dfsStack, bpc>>
    /\ UNCHANGED <<accumVars, frameVars, loopVars, rebuildVars, appVars>>

\* build_recursive for the root returned: start the reorder pass.
RemapStart ==
    /\ bpc = "build" /\ callStack = <<>>
    /\ remapped' = <<>>
    /\ remapSrc' = <<>>
    /\ dfsStack' = <<0>>
    /\ bpc' = "remap"
    /\ UNCHANGED <<firstBuild, nodeData, triData, trisIn, tris, refs, nodes, leafMax, callStack, retIdx>>
    /\ UNCHANGED <<accumVars, frameVars, loopVars, rebuildVars, appVars>>

RemapBaseBug(size, count) == size
RemapBase(size, count) == size - count

\* One iteration of the while loop of the reorder pass.
RemapStep ==
    /\ bpc = "remap" /\ dfsStack # <<>>
    /\ LET n == Top(dfsStack)
           node == nodes[n + 1]
       IN  IF isLeaf(node)
           THEN LET src == [i \in 1..node.count |-> refs[node.first + i]]
                    out == remapped \o [i \in 1..node.count |-> tris[src[i] + 1]]
                IN  /\ remapped' = out
                    /\ remapSrc' = remapSrc \o src
                    /\ nodes' = [nodes EXCEPT ![n + 1].first = RemapBase(Len(out), node.count)]
                    /\ dfsStack' = Pop(dfsStack)
           ELSE /\ dfsStack' = Append(Append(Pop(dfsStack), node.left), node.right)
                /\ UNCHANGED <<remapped, remapSrc, nodes>>
    /\ UNCHANGED <<firstBuild, nodeData, triData, trisIn, tris, refs, leafMax, callStack, retIdx, bpc>>
    /\ UNCHANGED <<accumVars, frameVars, loopVars, rebuildVars, appVars>>

\* tris = std::move(remapped); return nodes.
RemapDone ==
    /\ bpc = "remap" /\ dfsStack = <<>>
    /\ tris' = remapped
    /\ bpc' = "done"
    /\ UNCHANGED <<firstBuild, nodeData, triData, trisIn, refs, nodes, leafMax, callStack, retIdx, remapped, remapSrc,
                   dfsStack>>
    /\ UNCHANGED <<accumVars, frameVars, loopVars, rebuildVars, appVars>>

\* The caller hands the reordered array to build_bvh once more.
BuildAgain ==
    /\ bpc = "done"
    /\ ~firstBuild.done
    /\ trisIn # <<>>
    /\ firstBuild' = [done |-> TRUE, nodes |-> nodes, tris |-> tris]
    /\ trisIn' = tris
    /\ refs' = <<>>
    /\ nodes' = <<>>
    /\ callStack' = <<>>
    /\ retIdx' = -1
    /\ remapped' = <<>>
    /\ remapSrc' = <<>>
    /\ dfsStack' = <<>>
    /\ bpc' = "idle"
    /\ UNCHANGED <<tris, leafMax, nodeData, triData>>
    /\ UNCHANGED <<accumVars, frameVars, loopVars, rebuildVars, appVars>>

\* The 12 floats of one node; static_cast<float> of an int is exact up to
\* 2^24 in magnitude and rounds to the nearest even mantissa above.
PackNodeSwapped(n) ==
    <<n.bMin[1], n.bMin[2], n.bMin[3], n.right,
      n.bMax[1], n.bMax[2], n.bMax[3], n.left, n.first, n.count, 0, 0>>
PackNode(n) ==
    LET ToFloat(i) ==
            IF (-16777216 <= i /\ i <= 16777216) \/ i % 2 = 0 THEN i
            ELSE IF (i + 1) % 4 = 0 THEN i + 1 ELSE i - 1
    IN  <<n.bMin[1], n.bMin[2], n.bMin[3], ToFloat(n.left),
          n.bMax[1], n.bMax[2], n.bMax[3], ToFloat(n.right),
          ToFloat(n.first), ToFloat(n.count), 0, 0>>

\* The 12 floats of one triangle.
PackTri(t) ==
    <<t.v0[1], t.v0[2], t.v0[3], 0,
      t.e1[1], t.e1[2], t.e1[3], 0,
      t.e2[1], t.e2[2], t.e2[3], 0>>

\* upload_bvh_tbo on the result of build_bvh: the two push_back loops.
Upload ==
    /\ bpc = "done"
    /\ LET RECURSIVE Concat(_)
           Concat(ss) == IF ss = <<>> THEN <<>> ELSE Head(ss) \o Concat(Tail(ss))
       IN  /\ nodeData' = Concat([i \in 1..Len(nodes) |-> PackNode(nodes[i])])
           /\ triData' = Concat([j \in 1..Len(tris) |-> PackTri(tris[j])])
    /\ bpc' = "uploaded"
    /\ UNCHANGED <<firstBuild, trisIn, tris, refs, nodes, leafMax, callStack, retIdx, remapped,
                   remapSrc, dfsStack>>
    /\ UNCHANGED <<accumVars, frameVars, loopVars, rebuildVars, appVars>>

\* The steps build_bvh takes by itself once it was called.
BuildStep ==
    \/ RecLeaf
    \/ RecSplit
    \/ RecAfterLeft
    \/ RecAfterRight
    \/ RemapStart
    \/ RemapStep
    \/ RemapDone

NextBVH ==
    \/ BuildStart
    \/ RecLeaf
    \/ RecSplit
    \/ RecAfterLeft
    \/ RecAfterRight
    \/ RemapStart
    \/ RemapStep
    \/ RemapDone
    \/ BuildAgain
    \/ Upload

(***************************************************************************)
(* rt::Accum.  The operations are functions of the pair (accum, gl), so    *)
(* that the main loop can run several of them within one step.             *)
(***************************************************************************)
GLNames == 1..MaxGLName
Sizes == -1..MaxSize

AccumNew ==
    [fbo |-> 0, tex |-> [i \in 0..1 |-> 0], motionTex |-> 0, writeIdx |-> 0,
     frameIndex |-> 0, width |-> 0, height |-> 0]

GLNew ==
    [textures |-> {}, fbos |-> {}, data |-> [n \in GLNames |-> "none"]]

World(a, g) == [a |-> a, g |-> g]

\* glDeleteTextures(1, &t): the name is free again and its storage is gone.
GLDeleteTexture(g, t) ==
    [g EXCEPT !.textures = @ \ {t},
              !.data = [n \in GLNames |-> IF n = t THEN "none" ELSE @[n]]]

\* glGenTextures + glTexImage2D(..., nullptr): t is a name not in use, its
\* contents are undefined.
GLCreateTexture(g, t) ==
    [g EXCEPT !.textures = @ \cup {t},
              !.data = [n \in GLNames |-> IF n = t THEN "undef" ELSE @[n]]]

\* glClearBufferfv on the draw buffers that hold the textures ts.
GLClearTextures(g, ts) ==
    [g EXCEPT !.data = [n \in GLNames |-> IF n \in ts THEN "zero" ELSE @[n]]]

\* A draw call that writes the textures ts.
GLDrawTextures(g, ts) ==
    [g EXCEPT !.data = [n \in GLNames |-> IF n \in ts THEN "image" ELSE @[n]]]

ReadTexAliased(a) == a.tex[a.writeIdx]
readTex(a) == a.tex[1 - a.writeIdx]
writeTex(a) == a.tex[a.writeIdx]

\* The textures attached by bindWriteFBO_ColorAndMotion / clear: COLOR0 is
\* writeTex(), COLOR1 is motionTex.  With fbo == 0 the default framebuffer is
\* bound and takes no attachment.
ColorAndMotionTargets(a) ==
    IF a.fbo = 0 THEN {} ELSE {writeTex(a), a.motionTex} \ {0}

\* A clear that zeroes both colour buffers and the motion buffer.
ClearBothPings(w) ==
    World(w.a, GLClearTextures(w.g,
        ColorAndMotionTargets(w.a) \cup {w.a.tex[0], w.a.tex[1]}))

Accum_clear(w) == World(w.a, GLClearTextures(w.g, ColorAndMotionTargets(w.a)))

SwapCountsTwice(w) ==
    World([w.a EXCEPT !.frameIndex = @ + 2, !.writeIdx = 1 - @], w.g)
SwapNoFlip(w) == World([w.a EXCEPT !.frameIndex = @ + 1], w.g)
Accum_swapAfterFrame(w) ==
    World([w.a EXCEPT !.frameIndex = @ + 1, !.writeIdx = 1 - @], w.g)

ResetKeepsWriteIdx(w) ==
    Accum_clear(World([w.a EXCEPT !.frameIndex = 0], w.g))
ResetKeepIndex(w) == Accum_clear(World([w.a EXCEPT !.writeIdx = 0], w.g))
Accum_reset(w) ==
    Accum_clear(World([w.a EXCEPT !.frameIndex = 0, !.writeIdx = 0], w.g))

ReleaseKeepsHandles(w) ==
    World([w.a EXCEPT !.width = 0, !.height = 0, !.writeIdx = 0, !.frameIndex = 0],
          [w.g EXCEPT !.textures = @ \ {w.a.tex[0], w.a.tex[1], w.a.motionTex},
                      !.fbos = @ \ {w.a.fbo}])
Accum_release(w) ==
    LET a == w.a
        g1 == IF a.tex[0] # 0 THEN GLDeleteTexture(w.g, a.tex[0]) ELSE w.g
        g2 == IF a.tex[1] # 0 THEN GLDeleteTexture(g1, a.tex[1]) ELSE g1
        g3 == IF a.motionTex # 0 THEN GLDeleteTexture(g2, a.motionTex) ELSE g2
        g4 == IF a.fbo # 0 THEN [g3 EXCEPT !.fbos = @ \ {a.fbo}] ELSE g3
    IN  World(AccumNew, g4)

\* The reallocating branch of recreate up to the second clear, for one choice
\* of the names the GL hands out (f for the framebuffer if none exists, t0, t1
\* and m for the textures; three glGenTextures calls give three different names).
RecreateAllocCore(w, wd, ht, f, t0, t1, m) ==
    LET a == w.a
        fb == IF a.fbo = 0 THEN f ELSE a.fbo
        g0 == [w.g EXCEPT !.fbos = @ \cup {fb}]
        g1 == IF a.tex[0] # 0 THEN GLDeleteTexture(g0, a.tex[0]) ELSE g0
        g2 == IF a.tex[1] # 0 THEN GLDeleteTexture(g1, a.tex[1]) ELSE g1
        g3 == IF a.motionTex # 0 THEN GLDeleteTexture(g2, a.motionTex) ELSE g2
        g4 == GLCreateTexture(GLCreateTexture(GLCreateTexture(g3, t0), t1), m)
        a1 == [a EXCEPT !.fbo = fb, !.tex = [i \in 0..1 |-> IF i = 0 THEN t0 ELSE t1],
                        !.motionTex = m, !.width = wd, !.height = ht]
        w1 == Accum_clear(World(a1, g4))
    IN  Accum_clear(Accum_swapAfterFrame(w1))

RecreateAllocNoRewind(w, wd, ht, f, t0, t1, m) ==
    RecreateAllocCore(w, wd, ht, f, t0, t1, m)
RecreateAlloc(w, wd, ht, f, t0, t1, m) ==
    LET w2 == RecreateAllocCore(w, wd, ht, f, t0, t1, m)
    IN  World([w2.a EXCEPT !.writeIdx = 0, !.frameIndex = 0], w2.g)

RecreateReusesOnWidth(w, wd, ht) ==
    LET a == w.a
    IN  IF wd <= 0 \/ ht <= 0 THEN {w}
        ELSE IF /\ wd = a.width
                /\ a.fbo # 0 /\ a.tex[0] # 0 /\ a.tex[1] # 0 /\ a.motionTex # 0
        THEN {Accum_reset(w)}
        ELSE LET freeTex == GLNames \ (w.g.textures \ {a.tex[0], a.tex[1], a.motionTex})
                 freeFbo == IF a.fbo = 0 THEN (1..MaxFboName) \ w.g.fbos ELSE {a.fbo}
                 picks == {c \in freeFbo \X freeTex \X freeTex \X freeTex :
                              c[2] # c[3] /\ c[2] # c[4] /\ c[3] # c[4]}
             IN  {RecreateAlloc(w, wd, ht, c[1], c[2], c[3], c[4]) : c \in picks}
\* Accum::recreate(w, h): the set of outcomes, one per choice of fresh names.
Accum_recreate(w, wd, ht) ==
    LET a == w.a
    IN  IF wd <= 0 \/ ht <= 0 THEN {w}
        ELSE IF /\ wd = a.width /\ ht = a.height
                /\ a.fbo # 0 /\ a.tex[0] # 0 /\ a.tex[1] # 0 /\ a.motionTex # 0
        THEN {Accum_reset(w)}
        ELSE LET freeFbo == IF a.fbo = 0 THEN (1..MaxFboName) \ w.g.fbos ELSE {a.fbo}
                 freeTex == GLNames \ (w.g.textures \ {a.tex[0], a.tex[1], a.motionTex})
                 picks == {c \in freeFbo \X freeTex \X freeTex \X freeTex :
                              c[2] # c[3] /\ c[2] # c[4] /\ c[3] # c[4]}
             IN  {RecreateAlloc(w, wd, ht, c[1], c[2], c[3], c[4]) : c \in picks}

Before(a) ==
    [frameIndex |-> a.frameIndex, writeIdx |-> a.writeIdx,
     width |-> a.width, height |-> a.height]

AccumFresh ==
    /\ accum = AccumNew
    /\ gl = GLNew
    /\ aop = [name |-> "new", w |-> 0, h |-> 0]
    /\ apre = Before(AccumNew)
    /\ swapsSince = 0

Did(name, wd, ht) ==
    /\ aop' = [name |-> name, w |-> wd, h |-> ht]
    /\ apre' = Before(accum)

Recreate ==
    \E wd \in Sizes, ht \in Sizes :
        \E x \in Accum_recreate(World(accum, gl), wd, ht) :
            /\ accum' = x.a
            /\ gl' = x.g
            /\ Did("recreate", wd, ht)
            /\ swapsSince' = IF wd <= 0 \/ ht <= 0 THEN swapsSince ELSE 0
            /\ UNCHANGED <<bvhVars, frameVars, loopVars, rebuildVars, appVars>>

Reset ==
    LET x == Accum_reset(World(accum, gl))
    IN  /\ accum' = x.a
        /\ gl' = x.g
        /\ Did("reset", 0, 0)
        /\ swapsSince' = 0
        /\ UNCHANGED <<bvhVars, frameVars, loopVars, rebuildVars, appVars>>

SwapAfterFrame ==
    /\ accum.frameIndex < MaxFrameIndex
    /\ LET x == Accum_swapAfterFrame(World(accum, gl))
       IN  /\ accum' = x.a
           /\ gl' = x.g
    /\ Did("swapAfterFrame", 0, 0)
    /\ swapsSince' = swapsSince + 1
    /\ UNCHANGED <<bvhVars, frameVars, loopVars, rebuildVars, appVars>>

Release ==
    LET x == Accum_release(World(accum, gl))
    IN  /\ accum' = x.a
        /\ gl' = x.g
        /\ Did("release", 0, 0)
        /\ swapsSince' = 0
        /\ UNCHANGED <<bvhVars, frameVars, loopVars, rebuildVars, appVars>>

Clear ==
    LET x == Accum_clear(World(accum, gl))
    IN  /\ accum' = x.a
        /\ gl' = x.g
        /\ Did("clear", 0, 0)
        /\ UNCHANGED <<swapsSince, bvhVars, frameVars, loopVars, rebuildVars, appVars>>

\* The ray pass of renderRay: bindWriteFBO_MRT, then a draw call that writes
\* the write texture and the motion texture.
DrawRayPass ==
    /\ gl' = GLDrawTextures(gl, ColorAndMotionTargets(accum))
    /\ Did("draw", 0, 0)
    /\ UNCHANGED <<accum, swapsSince, bvhVars, frameVars, loopVars, rebuildVars, appVars>>

NextAccum ==
    \/ Recreate
    \/ Reset
    \/ SwapAfterFrame
    \/ Release
    \/ Clear
    \/ DrawRayPass

(***************************************************************************)
(* rt::FrameState.  Matrices are 2x2 integer matrices in column-major       *)
(* order, m[c][r]; view entries are counted in units of 1e-6, projection   *)
(* entries in units of 1e-2, so the entries of P * V are in units of 1e-8. *)
(***************************************************************************)
Mat(a, b, c, d) == <<<<a, b>>, <<c, d>>>>

\* glm: (P * V)[c][r] = sum over k of P[k][r] * V[c][k]
MatMul(P, V) ==
    [c \in 1..2 |-> [r \in 1..2 |-> P[1][r] * V[c][1] + P[2][r] * V[c][2]]]

Views == { Mat(100, 0, 0, 100), Mat(104, 0, 0, 100), Mat(100, 40, 0, 100) }
Projs == { Mat(100, 0, 0, 100), Mat(200, 0, 0, 100) }
CamPositions == { <<0, 0, 3>>, <<1, 0, 3>>, <<4, 0, 3>> }

FrameNew ==
    [currView |-> Mat(1, 0, 0, 1), currProj |-> Mat(1, 0, 0, 1),
     currViewProj |-> Mat(1, 0, 0, 1), prevViewProj |-> Mat(1, 0, 0, 1),
     currCamPos |-> <<0, 0, 0>>, prevCamPos |-> <<0, 0, 0>>, jitter |-> <<0, 0>>]

BeginFrameClobbersPrev(f, V, P, camPos) ==
    [f EXCEPT !.currView = V, !.currProj = P, !.currViewProj = MatMul(P, V),
              !.currCamPos = camPos, !.prevViewProj = MatMul(P, V)]
FrameState_beginFrame(f, V, P, camPos) ==
    [f EXCEPT !.currView = V, !.currProj = P, !.currViewProj = MatMul(P, V),
              !.currCamPos = camPos]

EndFrameKeepsPrev(f) == [f EXCEPT !.prevCamPos = f.currCamPos]
FrameState_endFrame(f) ==
    [f EXCEPT !.prevViewProj = f.currViewProj, !.prevCamPos = f.currCamPos]

FrameFresh ==
    /\ frame = FrameNew
    /\ fop = "new"
    /\ committed = [viewProj |-> FrameNew.prevViewProj, camPos |-> FrameNew.prevCamPos]

BeginFrame ==
    \E V \in Views, P \in Projs, camPos \in CamPositions :
        /\ frame' = FrameState_beginFrame(frame, V, P, camPos)
        /\ fop' = "beginFrame"
        /\ UNCHANGED <<committed, bvhVars, accumVars, loopVars, rebuildVars, appVars>>

EndFrame ==
    /\ frame' = FrameState_endFrame(frame)
    /\ fop' = "endFrame"
    /\ committed' = [viewProj |-> frame.currViewProj, camPos |-> frame.currCamPos]
    /\ UNCHANGED <<bvhVars, accumVars, loopVars, rebuildVars, appVars>>

NextFrame ==
    \/ BeginFrame
    \/ EndFrame

(***************************************************************************)
(* RenderParams.  A float field holds its value in units of 1e-6; the      *)
(* three components of a colour or position array are fields of their own  *)
(* (matAlbedoColor0 is matAlbedoColor[0]).                                 *)
(***************************************************************************)
Abs(x) == IF x < 0 THEN -x ELSE x

\* The int fields (counts and 0/1 switches) and the float fields.
IntFields == {
    "sppPerFrame", "matGlassEnabled", "matMirrorEnabled",
    "enableJitter", "enableGI", "enableEnvMap", "sunEnabled",
    "skyEnabled", "pointLightEnabled", "pointLightOrbitEnabled",
    "enableAO", "aoSamples", "enableTAA", "enableSVGF" }
FloatFields == {
    "exposure", "matAlbedoColor0", "matAlbedoColor1", "matAlbedoColor2",
    "matAlbedoSpecStrength", "matAlbedoGloss", "matGlassColor0",
    "matGlassColor1", "matGlassColor2", "matGlassIOR",
    "matGlassDistortion", "matMirrorColor0", "matMirrorColor1",
    "matMirrorColor2", "matMirrorGloss", "jitterStillScale",
    "jitterMovingScale", "giScaleAnalytic", "giScaleBVH",
    "envMapIntensity", "sunColor0", "sunColor1", "sunColor2",
    "sunIntensity", "sunYaw", "sunPitch", "skyColor0", "skyColor1",
    "skyColor2", "skyIntensity", "skyYaw", "skyPitch",
    "pointLightColor0", "pointLightColor1", "pointLightColor2",
    "pointLightIntensity", "pointLightPos0", "pointLightPos1",
    "pointLightPos2", "pointLightOrbitRadius", "pointLightOrbitSpeed",
    "pointLightYaw", "pointLightPitch", "aoRadius", "aoBias", "aoMin",
    "taaStillThresh", "taaHardMovingThresh", "taaHistoryMinWeight",
    "taaHistoryAvgWeight", "taaHistoryMaxWeight", "taaHistoryBoxSize",
    "svgfVarMax", "svgfKVar", "svgfKColor", "svgfKVarMotion",
    "svgfKColorMotion", "svgfStrength", "svgfVarEPS", "svgfMotionEPS",
    "motionScale" }
ParamFields == IntFields \cup FloatFields

\* The member initialisers of RenderParams.
RenderParamsNew == [
    sppPerFrame |-> 1, exposure |-> 1000000, matAlbedoColor0 |-> 850000,
    matAlbedoColor1 |-> 250000, matAlbedoColor2 |-> 250000,
    matAlbedoSpecStrength |-> 350000, matAlbedoGloss |-> 48000000,
    matGlassEnabled |-> 1, matGlassColor0 |-> 950000,
    matGlassColor1 |-> 980000, matGlassColor2 |-> 1000000,
    matGlassIOR |-> 1500000, matGlassDistortion |-> 50000,
    matMirrorEnabled |-> 1, matMirrorColor0 |-> 1000000,
    matMirrorColor1 |-> 1000000, matMirrorColor2 |-> 1000000,
    matMirrorGloss |-> 256000000, enableJitter |-> 1,
    jitterStillScale |-> 250000, jitterMovingScale |-> 500000,
    enableGI |-> 1, giScaleAnalytic |-> 350000, giScaleBVH |-> 200000,
    enableEnvMap |-> 1, envMapIntensity |-> 1000000, sunEnabled |-> 1,
    sunColor0 |-> 1000000, sunColor1 |-> 950000, sunColor2 |-> 850000,
    sunIntensity |-> 450000, sunYaw |-> 45000000, sunPitch |-> -35000000,
    skyEnabled |-> 1, skyColor0 |-> 400000, skyColor1 |-> 500000,
    skyColor2 |-> 1000000, skyIntensity |-> 1000000, skyYaw |-> 0,
    skyPitch |-> 90000000, pointLightEnabled |-> 1,
    pointLightColor0 |-> 1000000, pointLightColor1 |-> 900000,
    pointLightColor2 |-> 700000, pointLightIntensity |-> 20000000,
    pointLightPos0 |-> 0, pointLightPos1 |-> 2500000,
    pointLightPos2 |-> -3000000, pointLightOrbitEnabled |-> 0,
    pointLightOrbitRadius |-> 3500000, pointLightOrbitSpeed |-> 20000000,
    pointLightYaw |-> 0, pointLightPitch |-> 0, enableAO |-> 1,
    aoSamples |-> 4, aoRadius |-> 800000, aoBias |-> 2000, aoMin |-> 500000,
    enableTAA |-> 1, taaStillThresh |-> 10, taaHardMovingThresh |-> 350000,
    taaHistoryMinWeight |-> 850000, taaHistoryAvgWeight |-> 920000,
    taaHistoryMaxWeight |-> 960000, taaHistoryBoxSize |-> 60000,
    enableSVGF |-> 1, svgfVarMax |-> 20000, svgfKVar |-> 200000000,
    svgfKColor |-> 20000000, svgfKVarMotion |-> 35000000,
    svgfKColorMotion |-> 3000000, svgfStrength |-> 600000,
    svgfVarEPS |-> 200, svgfMotionEPS |-> 5000, motionScale |-> 4000000 ]

\* paramsChanged: the fields compared with != and the fields compared with
\* diff(), in the order of the source.
ExactCompared == {
    "sppPerFrame", "enableGI", "enableAO", "enableTAA", "enableSVGF",
    "aoSamples", "enableEnvMap", "enableJitter", "matGlassEnabled",
    "matMirrorEnabled", "sunEnabled", "skyEnabled", "pointLightEnabled",
    "pointLightOrbitEnabled" }
DiffCompared == {
    "matAlbedoColor0", "matAlbedoColor1", "matAlbedoColor2",
    "matAlbedoSpecStrength", "matAlbedoGloss", "matGlassColor0",
    "matGlassColor1", "matGlassColor2", "matGlassIOR",
    "matGlassDistortion", "matMirrorColor0", "matMirrorColor1",
    "matMirrorColor2", "matMirrorGloss", "envMapIntensity",
    "jitterStillScale", "jitterMovingScale", "giScaleAnalytic",
    "giScaleBVH", "aoRadius", "aoBias", "aoMin", "taaStillThresh",
    "taaHardMovingThresh", "taaHistoryMinWeight", "taaHistoryAvgWeight",
    "taaHistoryMaxWeight", "taaHistoryBoxSize", "svgfStrength",
    "svgfVarMax", "svgfKVar", "svgfKColor", "svgfKVarMotion",
    "svgfKColorMotion", "svgfVarEPS", "svgfMotionEPS", "sunColor0",
    "sunColor1", "sunColor2", "sunIntensity", "sunYaw", "sunPitch",
    "skyColor0", "skyColor1", "skyColor2", "skyIntensity", "skyYaw",
    "skyPitch", "pointLightColor0", "pointLightColor1",
    "pointLightColor2", "pointLightIntensity", "pointLightPos0",
    "pointLightPos1", "pointLightPos2", "pointLightOrbitRadius",
    "pointLightOrbitSpeed", "pointLightYaw", "pointLightPitch" }

ParamEps == 10
DiffAtEps(x, y) == Abs(x - y) >= ParamEps
diff(x, y) == Abs(x - y) > ParamEps

paramsChanged(a, b) ==
    \/ \E f \in ExactCompared : a[f] # b[f]
    \/ \E f \in DiffCompared : diff(a[f], b[f])

(***************************************************************************)
(* io::InputState and io::update.  `down` is the set of keys glfwGetKey    *)
(* reports as pressed during the call.                                     *)
(***************************************************************************)
Keys == {"ESC", "F2", "R", "F5", "F6", "P", "F3", "UP", "DOWN",
         "1", "2", "3", "4", "[", "]"}

InputStateNew ==
    [sppPerFrame |-> 1, exposure |-> 1000000,
     prevF2 |-> FALSE, prevR |-> FALSE, prevP |-> FALSE,
     prevF3 |-> FALSE, prevF5 |-> FALSE, prevF6 |-> FALSE,
     toggledRayMode |-> FALSE, resetAccum |-> FALSE, cycledSPP |-> FALSE,
     toggledBVH |-> FALSE, changedSPP |-> FALSE, toggledMotionDebug |-> FALSE,
     toggledPointerMode |-> FALSE, quitRequested |-> FALSE,
     sceneInputEnabled |-> TRUE, cameraChangedThisFrame |-> FALSE]

\* F3: 1 -> 2 -> 4 -> 8 -> 16 -> 1
CycleSPP(v) ==
    IF v = 1 THEN 2 ELSE IF v = 2 THEN 4 ELSE IF v = 4 THEN 8
    ELSE IF v = 8 THEN 16 ELSE 1

\* UP: the next step of 1, 2, 4, 8, 16 above the value, at most 16
SppUp(old) ==
    IF old < 2 THEN 2 ELSE IF old < 4 THEN 4 ELSE IF old < 8 THEN 8 ELSE 16

\* DOWN: the next step below the value, at least 1
SppDown(old) ==
    IF old > 8 THEN 8 ELSE IF old > 4 THEN 4 ELSE IF old > 2 THEN 2 ELSE 1

\* [ and ]: exposure * 0.97 not below 0.05, exposure * 1.03 not above 8.0
ExposureDown(e) == Max2(50000, (e * 97) \div 100)
ExposureUp(e) == Min2(8000000, (e * 103) \div 100)

\* io::update: returns the new InputState and the bool it returns.
io_update(s, down) ==
    LET edgeF2 == "F2" \in down /\ ~s.prevF2
        edgeR  == "R" \in down /\ ~s.prevR
        edgeF5 == "F5" \in down /\ ~s.prevF5
        edgeF6 == "F6" \in down /\ ~s.prevF6
        edgeP  == "P" \in down /\ ~s.prevP
        edgeF3 == "F3" \in down /\ ~s.prevF3
        spp0 == s.sppPerFrame
        spp1 == IF edgeF3 THEN CycleSPP(spp0) ELSE spp0
        spp2 == IF "UP" \in down THEN SppUp(spp1) ELSE spp1
        spp3 == IF "DOWN" \in down THEN SppDown(spp2) ELSE spp2
        spp4 == IF "1" \in down THEN 2 ELSE spp3
        spp5 == IF "2" \in down THEN 4 ELSE spp4
        spp6 == IF "3" \in down THEN 8 ELSE spp5
        spp7 == IF "4" \in down THEN 16 ELSE spp6
        upChanged == "UP" \in down /\ spp2 # spp1
        downChanged == "DOWN" \in down /\ spp3 # spp2
        digit == down \cap {"1", "2", "3", "4"} # {}
        exp1 == IF "[" \in down THEN ExposureDown(s.exposure) ELSE s.exposure
        exp2 == IF "]" \in down THEN ExposureUp(exp1) ELSE exp1
    IN  [s |-> [s EXCEPT
                  !.toggledRayMode = edgeF2,
                  !.resetAccum = edgeR,
                  !.cycledSPP = edgeF3,
                  !.toggledBVH = edgeF5,
                  !.changedSPP = edgeF3 \/ upChanged \/ downChanged \/ digit,
                  !.toggledMotionDebug = edgeF6,
                  !.toggledPointerMode = edgeP,
                  !.quitRequested = @ \/ "ESC" \in down,
                  !.prevF2 = "F2" \in down, !.prevR = "R" \in down,
                  !.prevF5 = "F5" \in down, !.prevF6 = "F6" \in down,
                  !.prevP = "P" \in down, !.prevF3 = "F3" \in down,
                  !.sppPerFrame = spp7,
                  !.exposure = exp2],
         changed |-> \/ edgeF2 \/ edgeR \/ edgeF5 \/ edgeF6 \/ edgeP \/ edgeF3
                     \/ upChanged \/ downChanged \/ digit
                     \/ "[" \in down \/ "]" \in down]

(***************************************************************************)
(* Camera.  The pose is a position and a heading; the field of view is in  *)
(* degrees and the aspect ratio is kept as the pair <<width, height>>.     *)
(* View entries are in units of 1e-6 and projection entries in units of    *)
(* 1e-2, so the entries of P * V are in units of 1e-8.                     *)
(***************************************************************************)
Headings == {0, 1}

CameraNew(size) ==
    [pos |-> <<0, 0, 3>>, heading |-> 0, fov |-> 45, aspect |-> size]

GetViewMatrix(c) == Mat(100 + c.pos[1], 40 * c.heading, 0, 100)

\* Stands for 1 / tan(fov / 2): falls as the field of view widens.
Focal(fov) == 6 * (100 - fov)

GetProjectionMatrix(c) ==
    Mat((Focal(c.fov) * c.aspect[2]) \div c.aspect[1], 0, 0, Focal(c.fov))

\* scroll_cb: Fov -= yoff * 2, kept within [20, 90]
ScrollFov(fov, yoff) == Min2(90, Max2(20, fov - yoff * 2))

(***************************************************************************)
(* rt::GBuffer: the two textures are tracked by whether they exist.        *)
(***************************************************************************)
GBufferNew == [posTex |-> FALSE, nrmTex |-> FALSE, width |-> 0, height |-> 0]

\* A G-buffer that keeps its textures whenever the width matches.
GBufferReusesOnWidth(g, wd, ht) ==
    IF wd <= 0 \/ ht <= 0 THEN g
    ELSE IF wd = g.width /\ g.posTex /\ g.nrmTex THEN g
    ELSE [posTex |-> TRUE, nrmTex |-> TRUE, width |-> wd, height |-> ht]

GBuffer_recreate(g, wd, ht) ==
    IF wd <= 0 \/ ht <= 0 THEN g
    ELSE IF wd = g.width /\ ht = g.height /\ g.posTex /\ g.nrmTex THEN g
    ELSE [posTex |-> TRUE, nrmTex |-> TRUE, width |-> wd, height |-> ht]

(***************************************************************************)
(* The framebuffer-size callback initState registers: the outcomes for the *)
(* pair w = (accum, gl), the camera and the G-buffer.                      *)
(***************************************************************************)
CallbackNoGuard(w, cam, g, wd, ht) ==
    {[w |-> x, camera |-> [cam EXCEPT !.aspect = <<wd, ht>>],
      gbuffer |-> GBuffer_recreate(g, wd, ht)] : x \in Accum_recreate(w, wd, ht)}
FramebufferSizeCallback(w, cam, g, wd, ht) ==
    IF wd <= 0 \/ ht <= 0
    THEN {[w |-> w, camera |-> cam, gbuffer |-> g]}
    ELSE {[w |-> x, camera |-> [cam EXCEPT !.aspect = <<wd, ht>>],
           gbuffer |-> GBuffer_recreate(g, wd, ht)] : x \in Accum_recreate(w, wd, ht)}

(***************************************************************************)
(* The BVH model picker and rebuild_bvh_from_model_path.  A model file is  *)
(* known by the number of meshes and triangles it loads to.                *)
(***************************************************************************)
ModelFiles ==
    << [meshes |-> 1, tris |-> 3],
       [meshes |-> 0, tris |-> 0],
       [meshes |-> 1, tris |-> 0] >>

BuildLeafMax == 8

\* Number of nodes build_recursive makes for n triangles.
RECURSIVE NodeCount(_)
NodeCount(n) ==
    IF n <= BuildLeafMax THEN 1
    ELSE 1 + NodeCount(n \div 2) + NodeCount(n - n \div 2)

BvhNew == [valid |-> FALSE, hasModel |-> FALSE, nodeCount |-> 0, triCount |-> 0]

\* Returns the bool the function returns and the BVH state it leaves: the old
\* handle is released first; a model without meshes leaves nothing behind.
rebuild_bvh_from_model_path(path) ==
    LET file == ModelFiles[path]
    IN  IF file.meshes = 0
        THEN [ok |-> FALSE, bvh |-> BvhNew]
        ELSE [ok |-> TRUE,
              bvh |-> [valid |-> TRUE, hasModel |-> TRUE,
                       nodeCount |-> IF file.tris = 0 THEN 0 ELSE NodeCount(file.tris),
                       triCount |-> file.tris]]

(***************************************************************************)
(* Jitter.  halton() halves f for every digit whatever the base; its       *)
(* result is kept in units of 1/2048, which is exact for the eleven binary *)
(* digits of an index up to 1024.                                          *)
(***************************************************************************)
RECURSIVE HaltonFrom(_, _, _)
HaltonFrom(index, base, f) ==
    IF index = 0 THEN 0
    ELSE (f \div 2) * (index % base) + HaltonFrom(index \div base, base, f \div 2)

halton(index, base) == HaltonFrom(index, base, 2048)

\* generateJitter2D, in units of 1/2048
generateJitter2D(frameIndex) ==
    LET idx == frameIndex % 1024
    IN  <<halton(idx + 1, 2) - 1024, halton(idx + 1, 3) - 1024>>

(***************************************************************************)
(* Application::mainLoop.  One iteration is three steps: LoopInput (poll   *)
(* events up to the hotkeys), LoopRender (the frame, endFrame) and LoopGui *)
(* (the control panel, the reloads and the reset decision).  The code of a *)
(* step runs over the record s = [w, rayMode, useBVH, showMotion, params,  *)
(* hist], where w is the pair (accum, gl) and hist is the bookkeeping the  *)
(* properties are stated with.                                             *)
(***************************************************************************)
Clamp(v, lo, hi) == Min2(hi, Max2(lo, v))

HistNew ==
    [pendMode |-> FALSE,     \* rayMode flipped and no invalidation since
     pendParams |-> {},      \* fields changed and no invalidation since
     pendReload |-> FALSE,   \* BVH reload processed and no invalidation since
     resetInIter |-> FALSE,  \* the history was invalidated in this iteration
     toggledBy |-> {},       \* who flipped rayMode since the last frame
     lastIdx |-> -1,         \* accum.frameIndex the last ray frame was drawn with
     sinceReset |-> 0,       \* raster frames drawn since the last invalidation;
                             \* -1 once a ray frame was drawn after it
     jitterIdx |-> -1]       \* accum.frameIndex this iteration's jitter was
                             \* generated from; -1 outside steps 3 to 5

\* The accumulated history is discarded: accum.reset(), or a recreate that
\* reallocates.
Invalidated(h) ==
    [h EXCEPT !.pendMode = FALSE, !.pendParams = {}, !.pendReload = FALSE,
              !.resetInIter = TRUE, !.sinceReset = 0]

\* app.accum.reset() as called by the main loop
ResetAccum(s) == [s EXCEPT !.w = Accum_reset(@), !.hist = Invalidated(@)]

\* A change of a parameter counts when it is beyond the comparison epsilon
\* (any change for an int field).
Significant(f, old, new) ==
    IF f \in IntFields THEN old # new ELSE Abs(old - new) > ParamEps

SetParam(s, f, v) ==
    [s EXCEPT !.params[f] = v,
              !.hist.pendParams =
                  IF Significant(f, s.params[f], v) THEN @ \cup {f} ELSE @]

FlipRayMode(s, who) ==
    [s EXCEPT !.rayMode = ~@, !.hist.pendMode = TRUE,
              !.hist.toggledBy = @ \cup {who}]

\* Point-light orbit animation: yaw += speed * dt, dt in milliseconds
OrbitLight(p, dt) ==
    IF p.pointLightOrbitEnabled # 0
    THEN LET y0 == p.pointLightYaw + (p.pointLightOrbitSpeed * dt) \div 1000
             y1 == IF y0 > 360000000 THEN y0 - 360000000 ELSE y0
             y2 == IF y1 < -360000000 THEN y1 + 360000000 ELSE y1
         IN  [p EXCEPT !.pointLightYaw = y2]
    ELSE p

\* max over c, r of |currViewProj[c][r] - prevViewProj[c][r]|
vpDiff(f) ==
    LET d(c, r) == Abs(f.currViewProj[c][r] - f.prevViewProj[c][r])
    IN  Max2(Max2(d(1, 1), d(1, 2)), Max2(d(2, 1), d(2, 2)))

MotionEps == 1000

CameraMoved(f) == vpDiff(f) > MotionEps

\* frame.jitter: the base sample times the scale that fits the motion
JitterFor(p, frameIndex, moved) ==
    IF p.enableJitter # 0
    THEN LET base == generateJitter2D(frameIndex)
             scale == IF moved THEN p.jitterMovingScale ELSE p.jitterStillScale
         IN  <<base[1] * scale, base[2] * scale>>
    ELSE <<0, 0>>

\* 4. Hotkey-driven state changes
Hotkeys(s, in, anyChanged) ==
    IF ~anyChanged THEN s
    ELSE LET s1 == IF in.toggledRayMode THEN ResetAccum(FlipRayMode(s, "hotkey")) ELSE s
             s2 == IF in.resetAccum THEN ResetAccum(s1) ELSE s1
             s3 == IF in.toggledBVH
                   THEN ResetAccum([s2 EXCEPT !.useBVH = ~@]) ELSE s2
             s4 == IF in.changedSPP
                   THEN ResetAccum(SetParam(s3, "sppPerFrame",
                                            Clamp(in.sppPerFrame, 1, 16)))
                   ELSE s3
             s5 == IF s4.params.exposure # in.exposure
                   THEN SetParam(s4, "exposure", Clamp(in.exposure, 10000, 8000000))
                   ELSE s4
             s6 == IF in.toggledMotionDebug
                   THEN ResetAccum([s5 EXCEPT !.showMotion = ~@]) ELSE s5
         IN  s6

\* 8. The reset decision
GuiChangedModeIgnoresRay(s, prev) ==
    \/ s.useBVH # prev.useBVH
    \/ s.showMotion # prev.showMotion
guiChangedMode(s, prev) ==
    \/ s.rayMode # prev.rayMode
    \/ s.useBVH # prev.useBVH
    \/ s.showMotion # prev.showMotion

dynamicPointLightMoving(s) ==
    /\ s.rayMode
    /\ s.params.pointLightOrbitEnabled # 0
    /\ Abs(s.params.pointLightOrbitSpeed) > 10
    /\ s.params.pointLightOrbitRadius > 0

ResetDecision(s, prev, zoom) ==
    IF \/ guiChangedMode(s, prev)
       \/ paramsChanged(s.params, prev.params)
       \/ zoom
       \/ dynamicPointLightMoving(s)
    THEN ResetAccum(s)
    ELSE s

(***************************************************************************)
(* ui::Draw.  The control panel has a slider for each field of SliderRange *)
(* and a checkbox for each field of Checkboxes, besides the three mode     *)
(* checkboxes and the two file pickers; one widget is operated per call.   *)
(***************************************************************************)
SliderRange == [
    sppPerFrame |-> <<1, 64>>, exposure |-> <<10000, 8000000>>,
    envMapIntensity |-> <<0, 5000000>>, jitterStillScale |-> <<0, 500000>>,
    jitterMovingScale |-> <<0, 1000000>>,
    giScaleAnalytic |-> <<0, 2000000>>, giScaleBVH |-> <<0, 2000000>>,
    aoSamples |-> <<1, 32>>, aoRadius |-> <<0, 4000000>>,
    aoBias |-> <<0, 10000>>, aoMin |-> <<0, 1000000>>,
    taaStillThresh |-> <<0, 1000>>, taaHardMovingThresh |-> <<0, 1000000>>,
    taaHistoryMinWeight |-> <<0, 1000000>>,
    taaHistoryAvgWeight |-> <<0, 1000000>>,
    taaHistoryMaxWeight |-> <<0, 1000000>>,
    taaHistoryBoxSize |-> <<0, 250000>>, svgfStrength |-> <<0, 1000000>>,
    svgfVarMax |-> <<0, 100000>>, svgfKVar |-> <<0, 500000000>>,
    svgfKColor |-> <<0, 100000000>>, svgfKVarMotion |-> <<0, 500000000>>,
    svgfKColorMotion |-> <<0, 100000000>>, svgfVarEPS |-> <<0, 10000>>,
    svgfMotionEPS |-> <<0, 50000>> ]

Checkboxes == {"enableEnvMap", "enableJitter", "enableGI", "enableAO",
               "enableTAA", "enableSVGF"}

\* How far one drag moves a float slider: up to the epsilon, and beyond it.
SliderSteps == {ParamEps, ParamEps + 1}

\* The <<field, value>> pairs one widget can write.
WidgetEdits(p) ==
    {<<f, IF p[f] # 0 THEN 0 ELSE 1>> : f \in Checkboxes}
    \cup {e \in {<<f, p[f] + d>> :
                    f \in DOMAIN SliderRange \cap IntFields, d \in {-1, 1}} :
             SliderRange[e[1]][1] <= e[2] /\ e[2] <= SliderRange[e[1]][2]}
    \cup {e \in {<<f, p[f] + d>> :
                    f \in DOMAIN SliderRange \cap FloatFields, d \in SliderSteps} :
             e[2] <= SliderRange[e[1]][2]}

\* Environment maps by whether loadCubeMapFromCross can load them.
EnvFiles == <<TRUE, FALSE>>

GuiEvents(s, bvhSel, envSel) ==
    {<<"rayMode">>, <<"useBVH">>, <<"showMotion">>}
    \cup (IF s.useBVH   \* the model picker is drawn only with BVH enabled
          THEN {<<"model", i>> : i \in DOMAIN ModelFiles \ {bvhSel}}
          ELSE {})
    \cup {<<"env", i>> : i \in DOMAIN EnvFiles \ {envSel}}
    \cup {<<"edit", e[1], e[2]>> : e \in WidgetEdits(s.params)}

\* The state after ui::Draw when the widget of event ev was operated.
Draw(s, ev) ==
    CASE ev[1] = "rayMode" -> FlipRayMode(s, "gui")
      [] ev[1] = "useBVH" -> [s EXCEPT !.useBVH = ~@]
      [] ev[1] = "showMotion" -> [s EXCEPT !.showMotion = ~@]
      [] ev[1] = "edit" -> SetParam(s, ev[2], ev[3])
      [] OTHER -> s

\* 7. Async reloads: the BVH model ...
ReloadBvh(s, requested, path) ==
    IF requested
    THEN LET r == rebuild_bvh_from_model_path(path)
             s1 == [s EXCEPT !.hist.pendReload = TRUE]
         IN  [s |-> IF r.ok THEN ResetAccum(s1) ELSE s1, bvh |-> r.bvh]
    ELSE [s |-> s, bvh |-> bvh]

\* ... and the environment map
ReloadEnv(s, requested, path) ==
    IF requested /\ EnvFiles[path]
    THEN [s |-> ResetAccum(s), envMap |-> path]
    ELSE [s |-> s, envMap |-> envMap]

\* The sets of at most k keys held down during one io::update call.
RECURSIVE KeySets(_)
KeySets(k) ==
    IF k <= 0 THEN {{}}
    ELSE LET S == KeySets(k - 1) IN S \cup {d \cup {key} : d \in S, key \in Keys}

\* Frame times in milliseconds.
FrameTimes == {16}

App(w, h) ==
    [w |-> w, rayMode |-> rayMode, useBVH |-> useBVH, showMotion |-> showMotion,
     params |-> params, hist |-> h]

\* renderRay: the ray pass draws into the write and motion targets, the
\* present pass reads them, then the ping-pong advances.
RenderRayReleases(w) ==
    Accum_release(Accum_swapAfterFrame(
        World(w.a, GLDrawTextures(w.g, ColorAndMotionTargets(w.a)))))
RenderRayNoSwap(w) ==
    World(w.a, GLDrawTextures(w.g, ColorAndMotionTargets(w.a)))
renderRay(w) ==
    Accum_swapAfterFrame(World(w.a, GLDrawTextures(w.g, ColorAndMotionTargets(w.a))))

\* The framebuffer of the fixed-size window initWindow creates (1920 x 1080).
WindowSize == <<2, 1>>

\* The state mainLoop starts from: initGLResources and initState have run for
\* a framebuffer of the given size.
LoopStart(size, events) ==
    /\ \E w \in Accum_recreate(World(AccumNew, GLNew), size[1], size[2]) :
          /\ accum = w.a
          /\ gl = w.g
    /\ aop = [name |-> "recreate", w |-> size[1], h |-> size[2]]
    /\ apre = Before(AccumNew)
    /\ swapsSince = 0
    /\ gbuffer = GBuffer_recreate(GBufferNew, size[1], size[2])
    /\ camera = CameraNew(size)
    /\ LET c == CameraNew(size)
           f == FrameState_endFrame(FrameState_beginFrame(
                    FrameNew, GetViewMatrix(c), GetProjectionMatrix(c), c.pos))
       IN  /\ frame = f
           /\ committed = [viewProj |-> f.prevViewProj, camPos |-> f.prevCamPos]
    /\ fop = "endFrame"
    /\ rayMode = TRUE
    /\ useBVH = FALSE
    /\ showMotion = FALSE
    /\ params = [RenderParamsNew EXCEPT !.enableEnvMap = IF EnvFiles[1] THEN 1 ELSE 0]
    /\ input = [InputStateNew EXCEPT !.sppPerFrame = RenderParamsNew.sppPerFrame,
                                     !.exposure = RenderParamsNew.exposure]
    /\ bvh = rebuild_bvh_from_model_path(1).bvh
    /\ bvhPicker = 1
    /\ envPicker = 1
    /\ envMap = IF EnvFiles[1] THEN 1 ELSE 0
    /\ cameraMoved = FALSE
    /\ cameraChangedFromZoom = FALSE
    /\ shouldClose = FALSE
    /\ lpc = "poll"
    /\ iter = 0
    /\ hist = HistNew
    /\ budget = events

\* Steps 1 to 4 of an iteration.
LoopInput ==
    /\ lpc = "poll"
    /\ ~shouldClose
    /\ iter < MaxIter
    /\ \E resize \in {<<"none", 0, 0>>} \cup
                      (IF budget > 0
                       THEN {<<"size", wd, ht>> : wd \in Sizes, ht \in Sizes}
                       ELSE {}),
          look \in (IF budget > 0 THEN Headings ELSE {camera.heading}),
          yoff \in (IF budget > 0 THEN {-1, 0, 1} ELSE {0}),
          walk \in (IF budget > 0 THEN CamPositions ELSE {camera.pos}),
          dt \in FrameTimes :
        LET cost == (IF resize[1] = "size" THEN 1 ELSE 0)
                    + (IF look # camera.heading THEN 1 ELSE 0)
                    + (IF yoff # 0 THEN 1 ELSE 0)
                    + (IF walk # camera.pos THEN 1 ELSE 0)
            sized == resize[1] = "size" /\ resize[2] > 0 /\ resize[3] > 0
        IN  /\ cost <= budget
            /\ \E down \in KeySets(budget - cost) :
               \E cb \in (IF resize[1] = "size"
                          THEN FramebufferSizeCallback(World(accum, gl), camera, gbuffer,
                                                       resize[2], resize[3])
                          ELSE {[w |-> World(accum, gl), camera |-> camera,
                                 gbuffer |-> gbuffer]}) :
                \* Each intermediate value is bound once, in program order.
                \E w1 \in {cb.w} :
                \E h0 \in {[hist EXCEPT !.resetInIter = FALSE]} :
                \E h1 \in {[(IF sized THEN Invalidated(h0) ELSE h0)
                              EXCEPT !.jitterIdx = cb.w.a.frameIndex]} :
                \* glfwPollEvents: framebuffer-size, cursor and scroll callbacks
                \E cam1 \in {[cb.camera EXCEPT
                               !.heading = IF input.sceneInputEnabled THEN look ELSE @,
                               !.fov = ScrollFov(@, yoff)]} :
                \E p1 \in {OrbitLight(params, dt)} :
                \* 2. input / camera update
                \E u \in {io_update(input, down)} :
                \E in1 \in {[u.s EXCEPT
                              !.cameraChangedThisFrame = (cam1.fov # camera.fov),
                              !.sceneInputEnabled =
                                  IF u.s.toggledPointerMode THEN ~@ ELSE @]} :
                \E cam2 \in {IF in1.sceneInputEnabled
                              THEN [cam1 EXCEPT !.pos = walk] ELSE cam1} :
                \* 3. frame state
                \E f1 \in {FrameState_beginFrame(frame, GetViewMatrix(cam2),
                                                  GetProjectionMatrix(cam2), cam2.pos)} :
                \E moved \in {CameraMoved(f1)} :
                \E f2 \in {[f1 EXCEPT !.jitter = JitterFor(p1, w1.a.frameIndex, moved)]} :
                \* 4. hotkeys
                \E s1 \in {Hotkeys([App(w1, h1) EXCEPT !.params = p1], in1, u.changed)} :
                    /\ accum' = s1.w.a
                    /\ gl' = s1.w.g
                    /\ gbuffer' = cb.gbuffer
                    /\ camera' = cam2
                    /\ input' = in1
                    /\ frame' = f2
                    /\ fop' = "beginFrame"
                    /\ cameraMoved' = moved
                    /\ cameraChangedFromZoom' = in1.cameraChangedThisFrame
                    /\ shouldClose' = (shouldClose \/ in1.quitRequested)
                    /\ rayMode' = s1.rayMode
                    /\ useBVH' = s1.useBVH
                    /\ showMotion' = s1.showMotion
                    /\ params' = s1.params
                    /\ hist' = s1.hist
                    /\ budget' = budget - cost - Cardinality(down)
    /\ lpc' = "render"
    /\ UNCHANGED <<bvh, bvhPicker, envPicker, envMap, iter, committed>>
    /\ UNCHANGED <<aop, apre, swapsSince, bvhVars, rebuildVars, appVars>>

\* Step 5 of an iteration and endFrame.
LoopRender ==
    /\ lpc = "render"
    /\ LET w1 == IF rayMode THEN renderRay(World(accum, gl)) ELSE World(accum, gl)
       IN  /\ accum' = w1.a
           /\ gl' = w1.g
    /\ hist' = [hist EXCEPT !.toggledBy = {},
                            !.lastIdx = IF rayMode THEN accum.frameIndex ELSE @,
                            !.sinceReset = IF rayMode THEN -1
                                           ELSE IF @ >= 0 THEN @ + 1 ELSE @,
                            !.jitterIdx = -1]
    /\ frame' = FrameState_endFrame(frame)
    /\ fop' = "endFrame"
    /\ committed' = [viewProj |-> frame.currViewProj, camPos |-> frame.currCamPos]
    /\ lpc' = "gui"
    /\ UNCHANGED <<rayMode, useBVH, showMotion, params, input, camera, gbuffer, bvh,
                   bvhPicker, envPicker, envMap, cameraMoved, cameraChangedFromZoom,
                   shouldClose, iter, budget>>
    /\ UNCHANGED <<aop, apre, swapsSince, bvhVars, rebuildVars, appVars>>

\* Steps 6 to 8 of an iteration.
LoopGui ==
    /\ lpc = "gui"
    /\ \E ev \in {<<"none">>} \cup
                (IF budget > 0
                 THEN GuiEvents(App(World(accum, gl), hist), bvhPicker, envPicker)
                 ELSE {}) :
        \E prev \in {App(World(accum, gl), hist)} :
        \E s1 \in {Draw(prev, ev)} :
        \E rb \in {ReloadBvh(s1, ev[1] = "model",
                             IF ev[1] = "model" THEN ev[2] ELSE bvhPicker)} :
        \E re \in {ReloadEnv(rb.s, ev[1] = "env",
                             IF ev[1] = "env" THEN ev[2] ELSE envPicker)} :
        \E s2 \in {ResetDecision(re.s, prev, cameraChangedFromZoom)} :
            /\ accum' = s2.w.a
            /\ gl' = s2.w.g
            /\ rayMode' = s2.rayMode
            /\ useBVH' = s2.useBVH
            /\ showMotion' = s2.showMotion
            /\ params' = s2.params
            /\ hist' = s2.hist
            /\ bvh' = rb.bvh
            /\ envMap' = re.envMap
            /\ bvhPicker' = IF ev[1] = "model" THEN ev[2] ELSE bvhPicker
            /\ envPicker' = IF ev[1] = "env" THEN ev[2] ELSE envPicker
            /\ budget' = IF ev[1] = "none" THEN budget ELSE budget - 1
    /\ iter' = iter + 1
    /\ lpc' = "poll"
    /\ UNCHANGED <<input, camera, gbuffer, cameraMoved, cameraChangedFromZoom,
                   shouldClose, frame, fop, committed>>
    /\ UNCHANGED <<aop, apre, swapsSince, bvhVars, rebuildVars, appVars>>

NextLoop ==
    \/ LoopInput
    \/ LoopRender
    \/ LoopGui

\* The main loop is not running.
LoopIdle ==
    /\ lpc = "off"
    /\ rayMode = TRUE
    /\ useBVH = FALSE
    /\ showMotion = FALSE
    /\ params = RenderParamsNew
    /\ input = InputStateNew
    /\ camera = CameraNew(<<1, 1>>)
    /\ gbuffer = GBufferNew
    /\ bvh = BvhNew
    /\ bvhPicker = 1
    /\ envPicker = 1
    /\ envMap = 0
    /\ cameraMoved = FALSE
    /\ cameraChangedFromZoom = FALSE
    /\ shouldClose = FALSE
    /\ iter = 0
    /\ hist = HistNew
    /\ budget = 0

(***************************************************************************)
(* The resize path on its own: the callback, and the two recreate calls it *)
(* makes, applied to an accumulator that counts frames in between.         *)
(***************************************************************************)
Resize ==
    \E wd \in Sizes, ht \in Sizes :
        \E cb \in FramebufferSizeCallback(World(accum, gl), camera, gbuffer, wd, ht) :
            /\ accum' = cb.w.a
            /\ gl' = cb.w.g
            /\ camera' = cb.camera
            /\ gbuffer' = cb.gbuffer
            /\ Did("resize", wd, ht)
            /\ swapsSince' = IF wd <= 0 \/ ht <= 0 THEN swapsSince ELSE 0
            /\ UNCHANGED <<lpc, rayMode, useBVH, showMotion, params, input, bvh,
                           bvhPicker, envPicker, envMap, cameraMoved,
                           cameraChangedFromZoom, shouldClose, iter, hist, budget>>
            /\ UNCHANGED <<bvhVars, frameVars, rebuildVars, appVars>>

GBufferRecreate ==
    \E wd \in Sizes, ht \in Sizes :
        /\ gbuffer' = GBuffer_recreate(gbuffer, wd, ht)
        /\ Did("gbuffer.recreate", wd, ht)
        /\ UNCHANGED <<accum, gl, swapsSince>>
        /\ UNCHANGED <<lpc, rayMode, useBVH, showMotion, params, input, camera, bvh,
                       bvhPicker, envPicker, envMap, cameraMoved,
                       cameraChangedFromZoom, shouldClose, iter, hist, budget>>
        /\ UNCHANGED <<bvhVars, frameVars, rebuildVars, appVars>>

NextResize ==
    \/ Resize
    \/ Recreate
    \/ GBufferRecreate
    \/ SwapAfterFrame

(***************************************************************************)
(* rebuild_bvh_from_model_path, one action per statement group, as the     *)
(* renderer could see it between two statements.  Sizes of the CPU vectors *)
(* stand for the vectors.                                                  *)
(***************************************************************************)
HandleNew == [nodeTex |-> 0, nodeBuf |-> 0, triTex |-> 0, triBuf |-> 0]

BvhGLNew == [textures |-> {}, buffers |-> {}]

\* BVHHandle::release(): every object that exists is deleted and zeroed.
ReleaseTexturesOnly(h, g) ==
    [h |-> [h EXCEPT !.nodeTex = 0, !.triTex = 0],
     g |-> [g EXCEPT !.textures = g.textures \ {h.nodeTex, h.triTex}]]
BVHHandle_release(h, g) ==
    [h |-> HandleNew,
     g |-> [textures |-> g.textures \ {h.nodeTex, h.triTex},
            buffers |-> g.buffers \ {h.nodeBuf, h.triBuf}]]

\* Size of the node array build_bvh returns for n triangles.
BuildSizeAlwaysRoot(n) == NodeCount(n)
build_bvh_size(n) == IF n = 0 THEN 0 ELSE NodeCount(n)

Installed == [handle |-> handle, model |-> bvhModel,
              nodeCount |-> outNodeCount, triCount |-> outTriCount]

RebuildFresh ==
    /\ handle = HandleNew
    /\ bvhModel = 0
    /\ outNodeCount = 0
    /\ outTriCount = 0
    /\ triCPU = 0
    /\ nodesCPU = 0
    /\ bvhGL = BvhGLNew
    /\ rpc = "idle"
    /\ rpath = 1
    /\ rret = "none"
    /\ rpre = [handle |-> HandleNew, model |-> 0, nodeCount |-> 0, triCount |-> 0]

\* The call: the arguments are bound.
RebuildCall ==
    /\ rpc = "idle"
    /\ \E path \in DOMAIN ModelFiles : rpath' = path
    /\ rpre' = Installed
    /\ rret' = "none"
    /\ triCPU' = 0
    /\ nodesCPU' = 0
    /\ rpc' = "release"
    /\ UNCHANGED <<handle, bvhModel, outNodeCount, outTriCount, bvhGL>>
    /\ UNCHANGED <<bvhVars, accumVars, frameVars, loopVars, appVars>>

\* handle.release();
RebuildRelease ==
    /\ rpc = "release"
    /\ LET r == BVHHandle_release(handle, bvhGL)
       IN  /\ handle' = r.h
           /\ bvhGL' = r.g
    /\ rpc' = "load"
    /\ UNCHANGED <<bvhModel, outNodeCount, outTriCount, triCPU, nodesCPU, rpath, rret, rpre>>
    /\ UNCHANGED <<bvhVars, accumVars, frameVars, loopVars, appVars>>

\* bvhModel = std::make_unique<Model>(path); the early return on a model
\* without meshes.
RebuildLoad ==
    /\ rpc = "load"
    /\ IF ModelFiles[rpath].meshes = 0
       THEN /\ bvhModel' = 0
            /\ outNodeCount' = 0
            /\ outTriCount' = 0
            /\ rret' = "false"
            /\ rpc' = "idle"
       ELSE /\ bvhModel' = rpath
            /\ rpc' = "build"
            /\ UNCHANGED <<outNodeCount, outTriCount, rret>>
    /\ UNCHANGED <<handle, triCPU, nodesCPU, bvhGL, rpath, rpre>>
    /\ UNCHANGED <<bvhVars, accumVars, frameVars, loopVars, appVars>>

\* gather_model_triangles, build_bvh and the two counts.
RebuildBuild ==
    /\ rpc = "build"
    /\ LET n == ModelFiles[rpath].tris
       IN  /\ triCPU' = n
           /\ nodesCPU' = build_bvh_size(n)
           /\ outNodeCount' = build_bvh_size(n)
           /\ outTriCount' = n
    /\ rpc' = "uploadNodes"
    /\ UNCHANGED <<handle, bvhModel, bvhGL, rpath, rret, rpre>>
    /\ UNCHANGED <<bvhVars, accumVars, frameVars, loopVars, appVars>>

\* upload_bvh_tbo, the node buffer and its texture: a name is generated only
\* where the handle holds none.
RebuildUploadNodes ==
    /\ rpc = "uploadNodes"
    /\ \E b \in (IF handle.nodeBuf = 0 THEN GLNames \ bvhGL.buffers ELSE {handle.nodeBuf}),
          t \in (IF handle.nodeTex = 0 THEN GLNames \ bvhGL.textures ELSE {handle.nodeTex}) :
        /\ handle' = [handle EXCEPT !.nodeBuf = b, !.nodeTex = t]
        /\ bvhGL' = [textures |-> bvhGL.textures \cup {t},
                     buffers |-> bvhGL.buffers \cup {b}]
    /\ rpc' = "uploadTris"
    /\ UNCHANGED <<bvhModel, outNodeCount, outTriCount, triCPU, nodesCPU, rpath, rret, rpre>>
    /\ UNCHANGED <<bvhVars, accumVars, frameVars, loopVars, appVars>>

\* upload_bvh_tbo, the triangle buffer and its texture; return true.
RebuildUploadTris ==
    /\ rpc = "uploadTris"
    /\ \E b \in (IF handle.triBuf = 0 THEN GLNames \ bvhGL.buffers ELSE {handle.triBuf}),
          t \in (IF handle.triTex = 0 THEN GLNames \ bvhGL.textures ELSE {handle.triTex}) :
        /\ handle' = [handle EXCEPT !.triBuf = b, !.triTex = t]
        /\ bvhGL' = [textures |-> bvhGL.textures \cup {t},
                     buffers |-> bvhGL.buffers \cup {b}]
    /\ rret' = "true"
    /\ rpc' = "idle"
    /\ UNCHANGED <<bvhModel, outNodeCount, outTriCount, triCPU, nodesCPU, rpath, rpre>>
    /\ UNCHANGED <<bvhVars, accumVars, frameVars, loopVars, appVars>>

NextRebuild ==
    \/ RebuildCall
    \/ RebuildRelease
    \/ RebuildLoad
    \/ RebuildBuild
    \/ RebuildUploadNodes
    \/ RebuildUploadTris

(***************************************************************************)
(* Application::run and Application::shutdown, with the release functions  *)
(* shutdown calls.  run() is initWindow, initGLResources, initState,       *)
(* initialized = true, mainLoop; the destructor calls shutdown().          *)
(***************************************************************************)
\* The application at position pc of run(), with its own objects all
\* present (up) or all absent.
AppAt(pc, up) ==
    /\ window = up
    /\ initialized = up
    /\ fsVao = up
    /\ envMapTex = up
    /\ tpc = pc

\* GBuffer::release(): both textures are deleted if they exist.
GBuffer_release(g) == GBufferNew

\* initWindow: glfwInit, glfwCreateWindow or gladLoadGL may fail; every
\* failure path leaves window null and makes run() return.
InitWindow ==
    /\ tpc = "start"
    /\ \E ok \in BOOLEAN :
          /\ window' = ok
          /\ tpc' = IF ok THEN "glres" ELSE "returned"
    /\ Did("initWindow", 0, 0)
    /\ UNCHANGED <<initialized, fsVao, envMapTex>>
    /\ UNCHANGED <<accum, gl, swapsSince, bvhVars, frameVars, loopVars, rebuildVars>>

\* initGLResources: the framebuffer may report a zero size.
InitGLResources ==
    /\ tpc = "glres"
    /\ \E fbw \in {0, WindowSize[1]}, fbh \in {0, WindowSize[2]} :
          /\ \E w \in Accum_recreate(World(accum, gl), fbw, fbh) :
                /\ accum' = w.a
                /\ gl' = w.g
          /\ gbuffer' = GBuffer_recreate(gbuffer, fbw, fbh)
          /\ Did("initGLResources", fbw, fbh)
    /\ fsVao' = TRUE
    /\ tpc' = "state"
    /\ UNCHANGED <<window, initialized, envMapTex, swapsSince>>
    /\ UNCHANGED <<lpc, rayMode, useBVH, showMotion, params, input, camera, bvh,
                   bvhPicker, envPicker, envMap, cameraMoved,
                   cameraChangedFromZoom, shouldClose, iter, hist, budget>>
    /\ UNCHANGED <<bvhVars, frameVars, rebuildVars>>

\* initState: the start-up BVH build (which fails on a model without meshes)
\* and the environment map; run() then sets initialized.
InitState ==
    /\ tpc = "state"
    /\ \E path \in DOMAIN ModelFiles :
          IF ModelFiles[path].meshes = 0
          THEN /\ bvhModel' = 0
               /\ outNodeCount' = 0
               /\ outTriCount' = 0
               /\ UNCHANGED <<handle, bvhGL>>
          ELSE /\ bvhModel' = path
               /\ outNodeCount' = build_bvh_size(ModelFiles[path].tris)
               /\ outTriCount' = ModelFiles[path].tris
               /\ \E nb \in GLNames, nt \in GLNames, tb \in GLNames, tt \in GLNames :
                     /\ nb # tb /\ nt # tt
                     /\ handle' = [nodeTex |-> nt, nodeBuf |-> nb,
                                   triTex |-> tt, triBuf |-> tb]
                     /\ bvhGL' = [textures |-> {nt, tt}, buffers |-> {nb, tb}]
    /\ envMapTex' = TRUE
    /\ initialized' = TRUE
    /\ tpc' = "loop"
    /\ Did("initState", 0, 0)
    /\ UNCHANGED <<window, fsVao>>
    /\ UNCHANGED <<triCPU, nodesCPU, rpc, rpath, rret, rpre>>
    /\ UNCHANGED <<accum, gl, swapsSince, bvhVars, frameVars, loopVars>>

\* mainLoop returns when the window should close.
MainLoopExit ==
    /\ tpc = "loop"
    /\ tpc' = "returned"
    /\ Did("mainLoop", 0, 0)
    /\ UNCHANGED <<window, initialized, fsVao, envMapTex>>
    /\ UNCHANGED <<accum, gl, swapsSince, bvhVars, frameVars, loopVars, rebuildVars>>

\* Application::shutdown(), called by the destructor or explicitly, before
\* run() or after it returned.  The w field of aop records which branch ran
\* (1: the application was initialized).
Shutdown ==
    /\ tpc \in {"start", "returned"}
    /\ IF ~initialized
       THEN /\ window' = FALSE
            /\ UNCHANGED <<initialized, fsVao, envMapTex, accum, gl, gbuffer,
                           handle, bvhGL, bvhModel>>
       ELSE LET b == BVHHandle_release(handle, bvhGL)
                a == Accum_release(World(accum, gl))
            IN  /\ bvhModel' = 0
                /\ envMapTex' = FALSE
                /\ fsVao' = FALSE
                /\ handle' = b.h
                /\ bvhGL' = b.g
                /\ gbuffer' = GBuffer_release(gbuffer)
                /\ accum' = a.a
                /\ gl' = a.g
                /\ window' = FALSE
                /\ initialized' = FALSE
    /\ Did("shutdown", IF initialized THEN 1 ELSE 0, 0)
    /\ UNCHANGED <<tpc, swapsSince>>
    /\ UNCHANGED <<outNodeCount, outTriCount, triCPU, nodesCPU, rpc, rpath, rret, rpre>>
    /\ UNCHANGED <<lpc, rayMode, useBVH, showMotion, params, input, camera, bvh,
                   bvhPicker, envPicker, envMap, cameraMoved,
                   cameraChangedFromZoom, shouldClose, iter, hist, budget>>
    /\ UNCHANGED <<bvhVars, frameVars>>

\* The release functions called on their own once run() has returned.
ReleaseAccum == tpc = "returned" /\ Release

ReleaseGBuffer ==
    /\ tpc = "returned"
    /\ gbuffer' = GBuffer_release(gbuffer)
    /\ Did("gbuffer.release", 0, 0)
    /\ UNCHANGED <<accum, gl, swapsSince>>
    /\ UNCHANGED <<lpc, rayMode, useBVH, showMotion, params, input, camera, bvh,
                   bvhPicker, envPicker, envMap, cameraMoved,
                   cameraChangedFromZoom, shouldClose, iter, hist, budget>>
    /\ UNCHANGED <<bvhVars, frameVars, rebuildVars, appVars>>

ReleaseBvh ==
    /\ tpc = "returned"
    /\ LET b == BVHHandle_release(handle, bvhGL)
       IN  /\ handle' = b.h
           /\ bvhGL' = b.g
    /\ Did("bvh.release", 0, 0)
    /\ UNCHANGED <<bvhModel, outNodeCount, outTriCount, triCPU, nodesCPU, rpc, rpath,
                   rret, rpre>>
    /\ UNCHANGED <<accum, gl, swapsSince, bvhVars, frameVars, loopVars, appVars>>

NextTeardown ==
    \/ InitWindow
    \/ InitGLResources
    \/ InitState
    \/ MainLoopExit
    \/ Shutdown
    \/ ReleaseAccum
    \/ ReleaseGBuffer
    \/ ReleaseBvh

(***************************************************************************)
(* Specifications.                                                         *)
(***************************************************************************)
InitBVH ==
    BvhInit /\ AccumFresh /\ FrameFresh /\ LoopIdle /\ RebuildFresh /\ AppAt("start", FALSE)
InitAccum ==
    BvhIdle /\ AccumFresh /\ FrameFresh /\ LoopIdle /\ RebuildFresh /\ AppAt("start", FALSE)
InitFrame ==
    BvhIdle /\ AccumFresh /\ FrameFresh /\ LoopIdle /\ RebuildFresh /\ AppAt("start", FALSE)
InitLoop ==
    BvhIdle /\ LoopStart(WindowSize, MaxEvents) /\ RebuildFresh /\ AppAt("loop", TRUE)
InitResize ==
    BvhIdle /\ AccumFresh /\ FrameFresh /\ LoopIdle /\ RebuildFresh /\ AppAt("start", FALSE)
InitRebuild ==
    BvhIdle /\ AccumFresh /\ FrameFresh /\ LoopIdle /\ RebuildFresh /\ AppAt("start", FALSE)
InitTeardown ==
    BvhIdle /\ AccumFresh /\ FrameFresh /\ LoopIdle /\ RebuildFresh /\ AppAt("start", FALSE)

SpecBVH == InitBVH /\ [][NextBVH]_vars
\* build_bvh is sequential code: a call that can take a step takes it.
SpecBVHLive == InitBVH /\ [][NextBVH]_vars /\ WF_vars(BuildStep)
SpecAccum == InitAccum /\ [][NextAccum]_vars
SpecFrame == InitFrame /\ [][NextFrame]_vars
SpecLoop == InitLoop /\ [][NextLoop]_vars
SpecResize == InitResize /\ [][NextResize]_vars
SpecRebuild == InitRebuild /\ [][NextRebuild]_vars
SpecTeardown == InitTeardown /\ [][NextTeardown]_vars

(***************************************************************************)
(* Claims about the BVH builder (checked under SpecBVH).                   *)
(***************************************************************************)
LeafIdx == {i \in 1..Len(nodes) : isLeaf(nodes[i])}
LeafCovers(i, k) == nodes[i].first <= k /\ k < nodes[i].first + nodes[i].count

\* C1: for every non-empty triangle list, when build_bvh has returned, the leaf
\* ranges [first, first+count) partition [0, |tris|) exactly, and the reordered
\* array is a permutation of the input: every input triangle is in exactly one
\* leaf, exactly once.
C1_LeafRangesPartition ==
    (bpc = "done" /\ trisIn # <<>>) =>
        LET n == Len(trisIn)
        IN  /\ Len(tris) = n
            /\ \A i \in LeafIdx : nodes[i].first >= 0 /\ nodes[i].first + nodes[i].count <= n
            /\ \A k \in 0..(n - 1) : Cardinality({i \in LeafIdx : LeafCovers(i, k)}) = 1
            /\ Len(remapSrc) = n
            /\ \A j \in 0..(n - 1) : Cardinality({k \in 1..n : remapSrc[k] = j}) = 1
            /\ \A k \in 1..n : tris[k] = trisIn[remapSrc[k] + 1]

\* A build of a list with a repeated triangle that ended with three leaves or
\* more and a changed triangle order.
C1_Witness ==
    /\ bpc = "done"
    /\ Cardinality(LeafIdx) >= 3
    /\ \E i, j \in 1..Len(trisIn) : i # j /\ trisIn[i] = trisIn[j]
    /\ tris # trisIn

\* The nodes build_recursive made as leaves, and the number of triangles a
\* finished node covers.
BuiltAsLeaf(i) == nodes[i].left = -1 /\ nodes[i].right = -1

RECURSIVE Covered(_)
Covered(i) ==
    IF BuiltAsLeaf(i) THEN nodes[i].count
    ELSE Covered(nodes[i].left + 1) + Covered(nodes[i].right + 1)

\* C14: for every non-empty input, every leaf the builder makes has
\* 1 <= count <= leafMax, and in the finished tree every node that covers more
\* than leafMax triangles is an internal node (the root covers them all).
C14_LeafSizeBounded ==
    /\ \A i \in 1..Len(nodes) :
          BuiltAsLeaf(i) => (1 <= nodes[i].count /\ nodes[i].count <= leafMax)
    /\ (bpc = "done" /\ trisIn # <<>>) =>
          /\ Covered(1) = Len(trisIn)
          /\ \A i \in 1..Len(nodes) :
                Covered(i) > leafMax =>
                    /\ ~isLeaf(nodes[i])
                    /\ nodes[i].left >= 0 /\ nodes[i].right >= 0

\* A finished tree over more triangles than a leaf may hold, with a full leaf
\* and a leaf of one triangle.
C14_Witness ==
    /\ bpc = "done"
    /\ Len(trisIn) > leafMax
    /\ \E i, j \in LeafIdx : nodes[i].count = leafMax /\ leafMax > 1 /\ nodes[j].count = 1
    /\ ~isLeaf(nodes[1])

\* The indices into the reordered triangle array a finished node covers.
RECURSIVE NodeTris(_)
NodeTris(i) ==
    IF BuiltAsLeaf(i) THEN {k \in 1..Len(tris) : LeafCovers(i, k - 1)}
    ELSE NodeTris(nodes[i].left + 1) \cup NodeTris(nodes[i].right + 1)

Corners(t) == {t.v0, VAdd(t.v0, t.e1), VAdd(t.v0, t.e2)}
InBox(n, p) == \A a \in 1..3 : n.bMin[a] <= p[a] /\ p[a] <= n.bMax[a]

\* C15: for every non-empty input, the box of every node contains every corner
\* of every triangle in the node's range; the root's box contains every input
\* triangle, and an internal node's box contains the boxes of its children.
C15_BoxesContain ==
    (bpc = "done" /\ trisIn # <<>>) =>
        /\ \A i \in 1..Len(nodes) : \A k \in NodeTris(i) :
              \A p \in Corners(tris[k]) : InBox(nodes[i], p)
        /\ \A k \in 1..Len(trisIn) : \A p \in Corners(trisIn[k]) : InBox(nodes[1], p)
        /\ \A i \in 1..Len(nodes) : ~BuiltAsLeaf(i) =>
              \A c \in {nodes[i].left + 1, nodes[i].right + 1} :
                  /\ InBox(nodes[i], nodes[c].bMin)
                  /\ InBox(nodes[i], nodes[c].bMax)

\* A finished tree with an internal root whose children have different boxes,
\* over triangles displaced along more than one axis.
C15_Witness ==
    /\ bpc = "done"
    /\ Len(nodes) >= 3
    /\ ~BuiltAsLeaf(1)
    /\ nodes[nodes[1].left + 1].bMax # nodes[nodes[1].right + 1].bMax
    /\ nodes[1].bMax[1] > 1 /\ nodes[1].bMax[3] > 1

\* The triangles of a leaf, each with the number of times it occurs.
LeafBag(N, T, i) ==
    [t \in TriPool |->
        Cardinality({k \in 1..Len(T) :
                        /\ N[i].first < k /\ k <= N[i].first + N[i].count
                        /\ T[k] = t})]

\* The second build has the shape of the first: as many nodes, the same
\* child indices and the same leaf ranges.
SameShape ==
    /\ Len(nodes) = Len(firstBuild.nodes)
    /\ \A i \in 1..Len(nodes) :
          /\ nodes[i].left = firstBuild.nodes[i].left
          /\ nodes[i].right = firstBuild.nodes[i].right
          /\ nodes[i].first = firstBuild.nodes[i].first
          /\ nodes[i].count = firstBuild.nodes[i].count

\* Corresponding leaves of the two builds hold the same triangles.
SameLeaves ==
    \A i \in 1..Len(nodes) :
        (i <= Len(firstBuild.nodes) /\ isLeaf(nodes[i])) =>
            LeafBag(nodes, tris, i) = LeafBag(firstBuild.nodes, firstBuild.tris, i)

\* No two different triangles of T have equal centroids on any axis.
TieFree(T) ==
    \A a, b \in 1..Len(T), ax \in 1..3 :
        T[a] # T[b] => tri_centroid(T[a])[ax] # tri_centroid(T[b])[ax]

\* C21 (as stated): build_bvh on the reordered array that build_bvh(T)
\* produced yields a tree isomorphic to the one built from T, also when
\* centroids tie on a split axis: the same shape, the same leaf counts and
\* the same triangles in corresponding leaves.
C21_RebuildIsomorphic ==
    (bpc = "done" /\ firstBuild.done) => (SameShape /\ SameLeaves)

\* C21 (amended): the second tree always has the shape and the leaf ranges of
\* the first; corresponding leaves hold the same triangles when no two
\* different triangles of the list have equal centroids on an axis.
C21_RebuildIsomorphicUpToTies ==
    (bpc = "done" /\ firstBuild.done) =>
        /\ SameShape
        /\ TieFree(tris) => SameLeaves

\* A second build of a tie-free list of different triangles that was split.
C21_Witness ==
    /\ bpc = "done" /\ firstBuild.done
    /\ Len(nodes) >= 3
    /\ TieFree(tris)
    /\ \E a, b \in 1..Len(tris) : tris[a] # tris[b]
    /\ SameShape /\ SameLeaves

\* C22: build_bvh terminates for every finite input, identical centroids
\* included: every call of build_recursive that splits its range leaves two
\* non-empty, strictly smaller ranges, and every call that was started
\* reaches its end.
C22_BuildTerminates ==
    /\ [](\A k \in 1..Len(callStack) :
            callStack[k].stage # "enter" =>
                /\ callStack[k].end - callStack[k].begin > leafMax
                /\ callStack[k].begin < callStack[k].mid
                /\ callStack[k].mid < callStack[k].end)
    /\ (bpc = "build") ~> (bpc = "done")

\* A finished build of a list of identical triangles that had to be split.
C22_Witness ==
    /\ bpc = "done"
    /\ Len(tris) > leafMax
    /\ \A a, b \in 1..Len(tris) : tri_centroid(tris[a]) = tri_centroid(tris[b])
    /\ Len(nodes) >= 3
    /\ \A i \in 1..Len(nodes) : nodes[i].count <= leafMax

\* The two forms of a node of the returned array.
LeafForm(n) ==
    /\ n.count > 0
    /\ n.left = -1 /\ n.right = -1
    /\ 0 <= n.first /\ n.first + n.count <= Len(tris)

InternalForm(n) ==
    /\ n.count = 0
    /\ n.first = -1
    /\ n.left \in 1..(Len(nodes) - 1) /\ n.right \in 1..(Len(nodes) - 1)
    /\ n.left # n.right

\* C25: every node of the array build_bvh returns is either a leaf (count > 0,
\* no children, a range inside the triangle array) or an internal node
\* (count == 0, first == -1, two different children with indices in
\* [1, |nodes|)); the root is node 0 and isLeaf() holds exactly for leaves.
C25_NodeForms ==
    bpc = "done" =>
        /\ tris # <<>> => nodes # <<>>
        /\ \A i \in 1..Len(nodes) :
              /\ LeafForm(nodes[i]) \/ InternalForm(nodes[i])
              /\ ~(LeafForm(nodes[i]) /\ InternalForm(nodes[i]))
              /\ isLeaf(nodes[i]) <=> LeafForm(nodes[i])
              /\ i > 1 => \E k \in 1..Len(nodes) :
                              nodes[k].left = i - 1 \/ nodes[k].right = i - 1

\* A returned array with an internal root, an internal child and leaves that
\* start inside the triangle array.
C25_Witness ==
    /\ bpc = "done"
    /\ Len(nodes) = 7
    /\ InternalForm(nodes[1]) /\ InternalForm(nodes[2])
    /\ \E i \in 1..Len(nodes) : LeafForm(nodes[i]) /\ nodes[i].first > 0

BoxExtent(n, axis) == n.bMax[axis + 1] - n.bMin[axis + 1]

\* The references of [begin, mid) are not after those of [mid, end) on axis.
PartitionedOn(f, axis) ==
    \A i \in (f.begin + 1)..f.mid, j \in (f.mid + 1)..f.end :
        tri_centroid(tris[refs[i] + 1])[axis + 1] <= tri_centroid(tris[refs[j] + 1])[axis + 1]

\* C28: for every internal node over [begin, end): the split axis is one of
\* maximal box extent, mid = floor((begin + end) / 2), the left child is built
\* over [begin, mid) and the right child over [mid, end), and on the split
\* axis no centroid of the left range is greater than one of the right range.
C28_MedianSplit ==
    \A k \in 1..Len(callStack) :
        LET f == callStack[k]
            n == nodes[f.myIndex + 1]
        IN  f.stage # "enter" =>
                /\ f.mid = (f.begin + f.end) \div 2
                /\ \E axis \in 0..2 :
                      /\ \A other \in 0..2 : BoxExtent(n, axis) >= BoxExtent(n, other)
                      /\ PartitionedOn(f, axis)
                /\ k < Len(callStack) =>
                      /\ f.stage = "left" =>
                            callStack[k + 1].begin = f.begin /\ callStack[k + 1].end = f.mid
                      /\ f.stage = "right" =>
                            callStack[k + 1].begin = f.mid /\ callStack[k + 1].end = f.end

\* The right child of a node of three or more triangles is being built, the
\* node's box is longest on y or z, and the left half was reordered below it.
C28_Witness ==
    \E k \in 1..Len(callStack) :
        LET f == callStack[k]
            n == nodes[f.myIndex + 1]
        IN  /\ f.stage = "right" /\ k < Len(callStack)
            /\ f.end - f.begin >= 3
            /\ BoxExtent(n, 0) < BoxExtent(n, 1) \/ BoxExtent(n, 0) < BoxExtent(n, 2)
            /\ \E i \in (f.begin + 1)..f.mid, j \in (f.mid + 1)..f.end :
                  tris[refs[i] + 1] # tris[refs[j] + 1]
            /\ callStack[k + 1].begin = f.mid

\* The nodes (by 0-based index) that name node j as a child.
ParentsOf(j) ==
    {k \in 0..(Len(nodes) - 1) :
        ~isLeaf(nodes[k + 1]) /\ (nodes[k + 1].left = j \/ nodes[k + 1].right = j)}

LeafCount == Cardinality({i \in 1..Len(nodes) : isLeaf(nodes[i])})

\* Pre-order layout: the left child of node i is node i + 1, the right child
\* comes later, the root has no parent and every other node exactly one,
\* which precedes it.
PreOrderTree ==
    /\ \A i \in 0..(Len(nodes) - 1) :
          ~isLeaf(nodes[i + 1]) =>
              /\ nodes[i + 1].left = i + 1
              /\ nodes[i + 1].right > nodes[i + 1].left
    /\ ParentsOf(0) = {}
    /\ \A j \in 1..(Len(nodes) - 1) :
          /\ Cardinality(ParentsOf(j)) = 1
          /\ \A k \in ParentsOf(j) : k < j

\* C37 as stated: the array build_bvh returns is a binary tree in pre-order
\* (left == i + 1, right > left, every non-root node the child of exactly
\* one node) and |nodes| == 2 * leaves - 1 <= 2 * |tris| - 1.
C37_PreOrderTreeAnySize ==
    bpc = "done" =>
        /\ PreOrderTree
        /\ Len(nodes) = 2 * LeafCount - 1
        /\ Len(nodes) <= 2 * Len(tris) - 1

\* C37, amended: the same for a non-empty triangle list; for an empty list
\* build_bvh returns an empty array, which has no root and no leaf.
C37_PreOrderTree ==
    bpc = "done" =>
        IF tris = <<>>
        THEN nodes = <<>>
        ELSE /\ PreOrderTree
             /\ Len(nodes) = 2 * LeafCount - 1
             /\ Len(nodes) <= 2 * Len(tris) - 1

\* A returned array of the largest size for four triangles: seven nodes, four
\* of them leaves, the root's right child behind the whole left subtree.
C37_Witness ==
    /\ bpc = "done"
    /\ Len(tris) = 4 /\ Len(nodes) = 7 /\ LeafCount = 4
    /\ nodes[1].left = 1 /\ nodes[1].right = 4
    /\ ParentsOf(4) = {0} /\ ParentsOf(6) = {4}

\* C24: upload_bvh_tbo writes node i as the 12 floats bMin.x, bMin.y, bMin.z,
\* left, bMax.x, bMax.y, bMax.z, right, first, count, 0, 0 at offset 12 * i and
\* triangle j as v0.xyz, 0, e1.xyz, 0, e2.xyz, 0 at offset 12 * j; the streams
\* have 12 * |nodes| and 12 * |tris| floats.
C24_UploadLayout ==
    bpc = "uploaded" =>
        /\ Len(nodeData) = 12 * Len(nodes)
        /\ Len(triData) = 12 * Len(tris)
        /\ \A i \in 0..(Len(nodes) - 1) :
              LET n == nodes[i + 1]
                  at(k) == nodeData[12 * i + k + 1]
              IN  /\ at(0) = n.bMin[1] /\ at(1) = n.bMin[2] /\ at(2) = n.bMin[3]
                  /\ at(3) = n.left
                  /\ at(4) = n.bMax[1] /\ at(5) = n.bMax[2] /\ at(6) = n.bMax[3]
                  /\ at(7) = n.right
                  /\ at(8) = n.first /\ at(9) = n.count
                  /\ at(10) = 0 /\ at(11) = 0
        /\ \A j \in 0..(Len(tris) - 1) :
              LET t == tris[j + 1]
                  at(k) == triData[12 * j + k + 1]
              IN  /\ at(0) = t.v0[1] /\ at(1) = t.v0[2] /\ at(2) = t.v0[3] /\ at(3) = 0
                  /\ at(4) = t.e1[1] /\ at(5) = t.e1[2] /\ at(6) = t.e1[3] /\ at(7) = 0
                  /\ at(8) = t.e2[1] /\ at(9) = t.e2[2] /\ at(10) = t.e2[3] /\ at(11) = 0

\* An uploaded tree with an internal root and different triangles.
C24_Witness ==
    /\ bpc = "uploaded"
    /\ Len(nodeData) >= 36 /\ Len(triData) >= 24
    /\ nodeData[4] = 1 /\ nodeData[8] > 1
    /\ nodeData[10] = 0
    /\ \E j \in 1..(Len(tris) - 1) : tris[j] # tris[j + 1]

(***************************************************************************)
(* Claims about rt::Accum (checked under SpecAccum).                       *)
(***************************************************************************)


(***************************************************************************)
\* C2: after any call recreate(w, h) with w > 0 and h > 0, from any reachable
\* state, frameIndex == 0, writeIdx == 0 and readTex() != writeTex().
C2_RecreateRewinds ==
    (aop.name = "recreate" /\ aop.w > 0 /\ aop.h > 0) =>
        /\ accum.frameIndex = 0
        /\ accum.writeIdx = 0
        /\ readTex(accum) # writeTex(accum)

\* recreate to a different size, called after an odd number of swaps.
C2_Witness ==
    /\ aop.name = "recreate" /\ aop.w > 0 /\ aop.h > 0
    /\ apre.frameIndex > 0 /\ apre.writeIdx = 1
    /\ apre.width > 0 /\ aop.w # apre.width

\* The accumulator holds buffers: a recreate succeeded and no release followed.
AccumLive == accum.width > 0 /\ accum.height > 0

\* C3: in every state reached from a successful recreate by swapAfterFrame,
\* reset and recreate calls, readTex() is tex[1 - writeIdx], writeTex() is
\* tex[writeIdx], writeIdx is 0 or 1, tex[0] != tex[1], and so the two
\* accessors never name the same buffer.
C3_ReadWriteNeverAlias ==
    AccumLive =>
        /\ accum.writeIdx \in {0, 1}
        /\ accum.tex[0] # 0 /\ accum.tex[1] # 0
        /\ accum.tex[0] # accum.tex[1]
        /\ readTex(accum) = accum.tex[1 - accum.writeIdx]
        /\ writeTex(accum) = accum.tex[accum.writeIdx]
        /\ readTex(accum) # writeTex(accum)

\* A live accumulator whose write index is 1 after a swap.
C3_Witness ==
    /\ AccumLive
    /\ aop.name = "swapAfterFrame"
    /\ accum.writeIdx = 1
    /\ accum.frameIndex >= 3

\* C4: after N consecutive swapAfterFrame calls that follow a reset or a
\* recreate, frameIndex == N and writeIdx == N mod 2.
C4_SwapCount ==
    /\ accum.frameIndex = swapsSince
    /\ accum.writeIdx = swapsSince % 2

\* Three swaps in a row after a reset that itself followed some swaps.
C4_Witness ==
    /\ aop.name = "swapAfterFrame"
    /\ swapsSince = 3
    /\ AccumLive

\* C5: reset(), from any state, leaves frameIndex == 0 and writeIdx == 0,
\* zeroes the buffer that is the write buffer after the call and the motion
\* buffer, and reallocates nothing: fbo, tex[0], tex[1], motionTex, width and
\* height are unchanged.
C5_ResetEffect ==
    [][aop'.name = "reset" =>
         /\ accum'.frameIndex = 0
         /\ accum'.writeIdx = 0
         /\ (accum'.fbo # 0 => /\ gl'.data[writeTex(accum')] = "zero"
                               /\ gl'.data[accum'.motionTex] = "zero")
         /\ accum'.fbo = accum.fbo
         /\ accum'.tex = accum.tex
         /\ accum'.motionTex = accum.motionTex
         /\ accum'.width = accum.width
         /\ accum'.height = accum.height
         /\ gl'.textures = gl.textures
         /\ gl'.fbos = gl.fbos]_vars

\* reset called on a live accumulator after an odd number of frames were drawn.
C5_Witness ==
    /\ aop.name = "reset"
    /\ apre.frameIndex > 0 /\ apre.writeIdx = 1
    /\ AccumLive
    /\ gl.data[accum.tex[1]] = "image"

\* C13: after every recreate(w, h) with w > 0 and h > 0, whether the size
\* changed or not, both colour buffers tex[0] and tex[1] and the motion buffer
\* hold zeros.
C13_RecreateClearsBoth ==
    (aop.name = "recreate" /\ aop.w > 0 /\ aop.h > 0) =>
        /\ gl.data[accum.tex[0]] = "zero"
        /\ gl.data[accum.tex[1]] = "zero"
        /\ gl.data[accum.motionTex] = "zero"

AccumTextures(a) == {a.tex[0], a.tex[1], a.motionTex}

\* C17: recreate(w, h) with positive w, h reallocates (the old colour and
\* motion buffers are deleted, new ones created, width == w, height == h)
\* whenever (w, h) differs from the current size or a buffer is missing, and
\* reuses the buffers (handles unchanged) when the size is unchanged and all
\* buffers exist; frameIndex == 0 afterwards in both cases.
C17_RecreateReallocates ==
    [][(aop'.name = "recreate" /\ aop'.w > 0 /\ aop'.h > 0) =>
         /\ accum'.frameIndex = 0
         /\ accum'.width = aop'.w
         /\ accum'.height = aop'.h
         /\ IF /\ aop'.w = accum.width /\ aop'.h = accum.height
               /\ accum.fbo # 0 /\ 0 \notin AccumTextures(accum)
            THEN /\ accum'.fbo = accum.fbo
                 /\ accum'.tex = accum.tex
                 /\ accum'.motionTex = accum.motionTex
                 /\ gl'.textures = gl.textures
            ELSE /\ accum'.fbo # 0
                 /\ Cardinality(AccumTextures(accum')) = 3
                 /\ 0 \notin AccumTextures(accum')
                 /\ gl'.textures = (gl.textures \ AccumTextures(accum))
                                       \cup AccumTextures(accum')
                 /\ \A t \in AccumTextures(accum') : gl'.data[t] = "zero"]_vars

\* recreate with the same width and another height, called on an accumulator
\* that had drawn frames at the old size.
C17_Witness ==
    /\ aop.name = "recreate"
    /\ apre.height > 0 /\ aop.h > 0
    /\ aop.w = apre.width /\ aop.h # apre.height
    /\ apre.frameIndex >= 2
    /\ accum.height = aop.h

\* C26: frameIndex grows only in swapAfterFrame, by exactly 1; every other
\* operation of the accumulator leaves it unchanged or sets it to 0; it is
\* never negative.
C26_FrameIndexSteps ==
    /\ [](accum.frameIndex >= 0)
    /\ [][IF aop'.name = "swapAfterFrame"
          THEN accum'.frameIndex = accum.frameIndex + 1
          ELSE accum'.frameIndex \in {accum.frameIndex, 0}]_vars

\* A swap that counted a frame after earlier frames, and later a clear that
\* kept the count.
C26_Witness ==
    /\ aop.name = "clear"
    /\ apre.frameIndex >= 2
    /\ accum.frameIndex = apre.frameIndex
    /\ swapsSince >= 2

(***************************************************************************)
(* Claims about rt::FrameState (checked under SpecFrame).                  *)
(***************************************************************************)
PrevChanged ==
    \/ frame'.prevViewProj # frame.prevViewProj
    \/ frame'.prevCamPos # frame.prevCamPos

\* C6: beginFrame never changes prevViewProj or prevCamPos; they change only
\* inside endFrame, where they become currViewProj and currCamPos; so after a
\* beginFrame they still hold what the last endFrame committed.
C6_PrevOnlyInEndFrame ==
    /\ [][/\ fop' = "beginFrame" => ~PrevChanged
          /\ PrevChanged => /\ fop' = "endFrame"
                            /\ frame'.prevViewProj = frame.currViewProj
                            /\ frame'.prevCamPos = frame.currCamPos]_vars
    /\ [](/\ frame.prevViewProj = committed.viewProj
          /\ frame.prevCamPos = committed.camPos)

\* A frame in flight whose camera differs from the one committed by an
\* earlier endFrame.
C6_Witness ==
    /\ fop = "beginFrame"
    /\ committed.viewProj # FrameNew.prevViewProj
    /\ frame.currViewProj # frame.prevViewProj
    /\ frame.currCamPos # frame.prevCamPos

\* C20: for any inputs (V, P, camPos), after beginFrame(V, P, camPos);
\* endFrame(); beginFrame(V, P, camPos) the camera-motion magnitude (the
\* largest absolute difference of an entry of currViewProj and prevViewProj)
\* is not above the motion threshold: the second frame counts as 'camera not
\* moved'.
C20_SameInputsNoMotion ==
    [][(/\ fop = "endFrame" /\ fop' = "beginFrame"
        /\ frame'.currView = frame.currView
        /\ frame'.currProj = frame.currProj
        /\ frame'.currCamPos = frame.currCamPos)
       => /\ vpDiff(frame') <= MotionEps
          /\ ~CameraMoved(frame')]_vars

\* The second of two frames begun with the same camera, one that is not the
\* camera the FrameState was constructed with.
C20_Witness ==
    /\ fop = "beginFrame"
    /\ frame.currView # FrameNew.currView
    /\ frame.currViewProj = MatMul(frame.currProj, frame.currView)
    /\ frame.prevViewProj = frame.currViewProj
    /\ frame.prevCamPos = frame.currCamPos
    /\ ~CameraMoved(frame)

(***************************************************************************)
(* Claims about the main loop (checked under SpecLoop).                    *)
(***************************************************************************)
\* C7: a tunable field of RenderParams that changes by more than the
\* comparison epsilon (at all, for an int field) between two frames gets
\* accum.reset() before the next frame is rendered: when a frame is about to
\* be rendered, no such change is still waiting for its reset.
C7_ParamChangeResets ==
    lpc = "render" => hist.pendParams = {}

\* C8: after every flip of rayMode, by F2 or by the control panel,
\* accum.reset() is called before the next frame is rendered, and that frame
\* is rendered with frameIndex == 0.
C8_ModeToggleResets ==
    lpc = "render" =>
        /\ ~hist.pendMode
        /\ (hist.toggledBy # {} => accum.frameIndex = 0)

\* A frame about to be rendered after the control panel flipped rayMode, when
\* the frame before it had accumulated history.
C8_Witness ==
    /\ lpc = "render"
    /\ "gui" \in hist.toggledBy
    /\ hist.lastIdx >= 1

\* C9: in an iteration whose camera-motion magnitude exceeded the threshold
\* (cameraMoved), accum.reset() is called: at the end of such an iteration
\* the history has been invalidated in it.
C9_CameraMotionResets ==
    (lpc = "poll" /\ iter > 0 /\ cameraMoved) => hist.resetInIter

\* C10: every BVH reload request the loop processes gets accum.reset() before
\* the next frame is rendered: when a frame is about to be rendered, no
\* processed reload is still waiting for its reset.
C10_ReloadResets ==
    lpc = "render" => ~hist.pendReload

\* No int field differs and no float field differs by more than the epsilon.
SubEps(p, q) ==
    /\ \A f \in IntFields : p[f] = q[f]
    /\ \A f \in FloatFields : Abs(p[f] - q[f]) <= ParamEps

\* C16: when the control panel changes every float field of RenderParams by
\* no more than the comparison epsilon and no int field, and there is no other
\* dirty signal in the iteration's decision (mode toggle, reload, zoom,
\* orbiting light), paramsChanged returns false, accum.reset() is not called
\* and frameIndex keeps its value.
C16_SubEpsilonKeepsHistory ==
    [][(/\ lpc = "gui"
        /\ SubEps(params, params')
        /\ rayMode' = rayMode /\ useBVH' = useBVH /\ showMotion' = showMotion
        /\ bvhPicker' = bvhPicker /\ envPicker' = envPicker
        /\ ~cameraChangedFromZoom
        /\ ~dynamicPointLightMoving([rayMode |-> rayMode', params |-> params']))
       => /\ ~paramsChanged(params', params)
          /\ accum' = accum
          /\ gl' = gl
          /\ hist'.resetInIter = hist.resetInIter]_vars

\* The end of the first iteration, in which a frame was accumulated and the
\* control panel then moved a float slider by exactly the epsilon, with no
\* reset.
C16_Witness ==
    /\ lpc = "poll" /\ iter = 1
    /\ \E f \in DiffCompared : params[f] - RenderParamsNew[f] = ParamEps
    /\ \A f \in ParamFields : Abs(params[f] - RenderParamsNew[f]) <= ParamEps
    /\ ~hist.resetInIter
    /\ accum.frameIndex = 1

\* C27: in the main loop beginFrame and endFrame alternate, one pair per
\* iteration; in every ray-mode iteration swapAfterFrame is called exactly
\* once, after the passes drew the frame and before endFrame, so the frame
\* just drawn is the read buffer of the next iteration; no other step of the
\* loop advances frameIndex.
C27_FramePairsAndOneSwap ==
    [][/\ lpc = "poll" =>
            /\ fop = "endFrame" /\ fop' = "beginFrame"
            /\ accum'.frameIndex \in {accum.frameIndex, 0}
       /\ lpc = "render" =>
            /\ fop = "beginFrame" /\ fop' = "endFrame"
            /\ rayMode =>
                  /\ accum'.frameIndex = accum.frameIndex + 1
                  /\ readTex(accum') = writeTex(accum)
                  /\ AccumLive => gl'.data[readTex(accum')] = "image"
            /\ ~rayMode => accum' = accum
       /\ lpc = "gui" =>
            /\ fop = "endFrame" /\ fop' = "endFrame"
            /\ frame' = frame
            /\ accum'.frameIndex \in {accum.frameIndex, 0}]_vars

\* The second ray frame in a row has been drawn, swapped and ended.
C27_Witness ==
    /\ lpc = "gui"
    /\ rayMode
    /\ fop = "endFrame"
    /\ iter >= 1
    /\ accum.frameIndex >= 2
    /\ gl.data[readTex(accum)] = "image"

\* C29: the recreate calls of a resize notification run only while events
\* are polled, before beginFrame: between a frame's beginFrame and the next
\* poll the accumulator and the G-buffer keep their objects and their size,
\* and the buffer a frame was drawn into is the one its swap hands over.
C29_ResizeOnlyWhilePolling ==
    [][lpc # "poll" =>
          /\ accum'.tex = accum.tex
          /\ accum'.motionTex = accum.motionTex
          /\ accum'.fbo = accum.fbo
          /\ accum'.width = accum.width /\ accum'.height = accum.height
          /\ gl'.textures = gl.textures /\ gl'.fbos = gl.fbos
          /\ gbuffer' = gbuffer
          /\ (lpc = "render" /\ rayMode) => readTex(accum') = writeTex(accum)]_vars

\* A frame was drawn and swapped after a resize to another size was handled
\* in the same iteration.
C29_Witness ==
    /\ lpc = "gui"
    /\ rayMode
    /\ AccumLive
    /\ <<accum.width, accum.height>> # WindowSize
    /\ gbuffer.width = accum.width /\ gbuffer.height = accum.height
    /\ accum.frameIndex = 1
    /\ gl.data[readTex(accum)] = "image"

\* C31: after accum.reset() or a recreate with a positive size, the next frame
\* drawn in ray mode is drawn with frameIndex == 0 into tex[0]: no swap
\* happens between the invalidation and that frame, however many raster
\* frames lie between them.
C31_FirstRayFrameAfterReset ==
    (lpc = "render" /\ rayMode /\ hist.sinceReset >= 0) =>
        /\ accum.frameIndex = 0
        /\ accum.writeIdx = 0
        /\ writeTex(accum) = accum.tex[0]

\* A ray frame is about to be drawn after two ray frames and an invalidation.
C31_Witness ==
    /\ lpc = "render" /\ rayMode
    /\ hist.lastIdx >= 1
    /\ hist.sinceReset = 0
    /\ AccumLive
    /\ accum.frameIndex = 0

\* C32: reset() changes the contents of tex[0] and of the motion buffer only;
\* every other texture keeps its contents, in particular tex[1], which is
\* the buffer readTex() names right after the call.
C32_ResetLeavesHistoryBuffer ==
    [][aop'.name = "reset" =>
         /\ readTex(accum') = accum.tex[1]
         /\ (accum.tex[1] # 0 => gl'.data[accum.tex[1]] = gl.data[accum.tex[1]])
         /\ \A n \in GLNames :
               gl'.data[n] # gl.data[n] => n \in {accum.tex[0], accum.motionTex}]_vars

\* reset called on a live accumulator whose tex[1] holds a rendered image:
\* the image is still there while tex[0] and the motion buffer are zero.
C32_Witness ==
    /\ aop.name = "reset"
    /\ AccumLive
    /\ accum.tex[1] # accum.tex[0]
    /\ gl.data[accum.tex[1]] = "image"
    /\ gl.data[readTex(accum)] = "image"
    /\ gl.data[accum.tex[0]] = "zero"
    /\ gl.data[accum.motionTex] = "zero"

\* C33: in every ray-mode frame with jitter enabled, the jitter in FrameState
\* was generated from the frameIndex the renderer is given in that frame.
C33_JitterFromRenderedIndex ==
    (lpc = "render" /\ rayMode /\ params.enableJitter # 0) =>
        /\ hist.jitterIdx = accum.frameIndex
        /\ frame.jitter = JitterFor(params, accum.frameIndex, cameraMoved)

\* C34: io::update raises changedSPP only in calls after which sppPerFrame
\* differs from its value before the call; a held SPP key whose value is
\* already current does not raise it.
C34_ChangedSppMeansChanged ==
    [][(lpc = "poll" /\ input'.changedSPP) =>
          input'.sppPerFrame # input.sppPerFrame]_vars

\* C36: once the GL resources are initialised, and after any sequence of
\* framebuffer-size notifications (positive or not, repeated or new), the
\* accumulation buffers and the G-buffer have the same width and height.
C36_AccumAndGBufferSameSize ==
    /\ accum.width = gbuffer.width
    /\ accum.height = gbuffer.height

\* Both objects hold buffers of a size other than the window's first one:
\* a notification with a new positive size was handled.
C36_Witness ==
    /\ iter >= 1
    /\ AccumLive /\ gbuffer.posTex /\ gbuffer.nrmTex
    /\ <<accum.width, accum.height>> # WindowSize
    /\ accum.width = gbuffer.width /\ accum.width > 0
    /\ accum.height = gbuffer.height /\ accum.height > 0

(***************************************************************************)
(* Claims about the resize path (checked under SpecResize).                *)
(***************************************************************************)
\* C18: a resize with w <= 0 or h <= 0 is a no-op: Accum::recreate,
\* GBuffer::recreate and the framebuffer-size callback leave every field
\* (handles, width, height, writeIdx, frameIndex, camera aspect ratio)
\* unchanged and allocate or release nothing.
C18_NonPositiveResizeNoOp ==
    [][(/\ aop'.name \in {"resize", "recreate", "gbuffer.recreate"}
        /\ (aop'.w <= 0 \/ aop'.h <= 0))
       => /\ accum' = accum
          /\ gl' = gl
          /\ gbuffer' = gbuffer
          /\ camera' = camera]_vars

\* The callback was called with a non-positive size on a window whose
\* buffers were allocated and had frames drawn into them.
C18_Witness ==
    /\ aop.name = "resize"
    /\ (aop.w <= 0 \/ aop.h <= 0)
    /\ accum.width > 0 /\ accum.frameIndex >= 1
    /\ gbuffer.posTex /\ gbuffer.width = accum.width
    /\ camera.aspect = <<accum.width, accum.height>>

(***************************************************************************)
(* Claims about rebuild_bvh_from_model_path (checked under SpecRebuild).   *)
(***************************************************************************)
HandleLive(h) ==
    /\ h.nodeTex # 0 /\ h.nodeTex \in bvhGL.textures
    /\ h.triTex # 0 /\ h.triTex \in bvhGL.textures
    /\ h.nodeBuf # 0 /\ h.nodeBuf \in bvhGL.buffers
    /\ h.triBuf # 0 /\ h.triBuf \in bvhGL.buffers

\* C11: during a rebuild the previous resident handles are released only
\* after the replacement buffers have been created: at every step of a
\* rebuild that began with a valid BVH, the handle holds four live objects
\* (the old ones or their replacements).
C11_ReleaseAfterReplacement ==
    (rpc # "idle" /\ rpre.handle.nodeTex # 0) => HandleLive(handle)

\* C12: a rebuild that returned false (the model loaded with no meshes) left
\* the previously installed BVH intact: handle, counts and model are what
\* they were before the call.
C12_FailedRebuildKeepsOld ==
    (rpc = "idle" /\ rret = "false") => Installed = rpre

\* C30: rebuild_bvh_from_model_path returns true exactly when the loaded
\* model has at least one mesh; when it returns false the old BVH data has
\* been deleted: the four handles are 0, both counts are 0 and bvhModel is
\* null.
C30_ReturnValueAndFailureState ==
    (rpc = "idle" /\ rret # "none") =>
        /\ rret = "true" <=> ModelFiles[rpath].meshes >= 1
        /\ rret = "false" =>
              /\ handle = HandleNew
              /\ outNodeCount = 0 /\ outTriCount = 0
              /\ bvhModel = 0
              /\ bvhGL.textures \cap {rpre.handle.nodeTex, rpre.handle.triTex} = {}
              /\ bvhGL.buffers \cap {rpre.handle.nodeBuf, rpre.handle.triBuf} = {}

\* A rebuild returned false while a BVH with triangles was installed.
C30_Witness ==
    /\ rpc = "idle" /\ rret = "false"
    /\ ModelFiles[rpath].meshes = 0
    /\ rpre.handle.nodeTex # 0 /\ rpre.handle.triBuf # 0
    /\ rpre.triCount > 0
    /\ handle = HandleNew

\* C19: build_bvh on an empty triangle list returns an empty node array and
\* leaves the list empty; a rebuild whose model yields zero triangles still
\* returns true, with node count 0 and triangle count 0.
C19_EmptyInputEmptyResult ==
    /\ (rpc \in {"uploadNodes", "uploadTris"} /\ triCPU = 0) => nodesCPU = 0
    /\ (rpc \in {"uploadNodes", "uploadTris"} /\ ModelFiles[rpath].tris = 0) =>
          /\ triCPU = 0
          /\ outNodeCount = 0 /\ outTriCount = 0
    /\ (rpc = "idle" /\ rret # "none" /\ ModelFiles[rpath].meshes > 0
            /\ ModelFiles[rpath].tris = 0) =>
          /\ rret = "true"
          /\ outNodeCount = 0 /\ outTriCount = 0
          /\ bvhModel = rpath

\* A rebuild from a model with meshes but no triangles has returned, after a
\* BVH with nodes had been installed.
C19_Witness ==
    /\ rpc = "idle" /\ rret = "true"
    /\ ModelFiles[rpath].meshes > 0 /\ ModelFiles[rpath].tris = 0
    /\ rpre.nodeCount > 0
    /\ HandleLive(handle)
(***************************************************************************)
(* Claims about teardown (checked under SpecTeardown).                     *)
(***************************************************************************)
\* The GL names the accumulator and the BVH handle hold.
AccumOwned == {accum.tex[0], accum.tex[1], accum.motionTex} \ {0}
BvhOwnedTextures == {handle.nodeTex, handle.triTex} \ {0}
BvhOwnedBuffers == {handle.nodeBuf, handle.triBuf} \ {0}

\* Every handle that is not 0 names an object that exists, so a delete call
\* guarded by the handle never names an object that was deleted before.
NoDanglingHandle ==
    /\ AccumOwned \subseteq gl.textures
    /\ accum.fbo # 0 => accum.fbo \in gl.fbos
    /\ BvhOwnedTextures \subseteq bvhGL.textures
    /\ BvhOwnedBuffers \subseteq bvhGL.buffers

====
